---- MODULE Spec2Model ----
(***************************************************************************)
(* Outbound connection handling of ztunnel: src/proxy/outbound.rs and      *)
(* src/proxy/socks5.rs.                                                    *)
(*                                                                         *)
(* Spec: one accepted connection is followed from the call of proxy_to     *)
(* through build_request (one step per awaited directory query), the       *)
(* pre-dispatch checks, connection tracking, the HBONE or TCP leg and the  *)
(* relay, to the recording of the outcome, or to its cancellation by the   *)
(* drain.  The directory, the pool, the dialer and the relay are           *)
(* collaborators: every answer they give is an input drawn from a small    *)
(* set.                                                                    *)
(*                                                                         *)
(* AcceptorSpec: the accept loop of Outbound::run and of Socks5::run, the  *)
(* tasks it spawns and the two drains.  The proxy operation of a task is   *)
(* opaque there: it completes, or it never does.                           *)
(*                                                                         *)
(* HandshakeSpec: the SOCKS5 handshake of handle, one step per awaited     *)
(* read or write, over the bytes the client sends.                         *)
(*                                                                         *)
(* ResolveSpec: build_request called twice for one source and target,      *)
(* against one directory snapshot.                                         *)
(*                                                                         *)
(* Socks5Spec: one SOCKS5 connection from the first byte of its handshake  *)
(* to the end of the dispatch that handle spawns.                          *)
(***************************************************************************)
EXTENDS Integers, Sequences, FiniteSets, TLC

VARIABLES
    cfg,            \* ProxyInputs: cfg.proxy_mode, cfg.local_ip, cfg.inpod_enabled, proxy_workload_info
    conn,           \* the accepted connection: front-end, source_addr, dest_addr
    pc,             \* where the connection's task is
    bl,             \* the local variables of build_request
    queries,        \* the directory queries build_request has issued, in order
    answers,        \* the answers the directory gave to the build_request in progress, in order
    first,          \* an earlier resolution of the same pair: its queries, answers and result
    result,         \* what build_request returned, while proxy_to has not consumed it
    req,            \* proxy_to's req
    conn_guard,     \* proxy_to's _conn_guard
    tracked,        \* the connection manager's table of tracked connections
    track_calls,    \* number of track_outbound calls
    release_calls,  \* number of releases of a tracking guard
    early_deny,     \* the metrics::log_early_deny events
    result_tracker, \* proxy_to's ConnectionResult
    open_records,   \* the ConnectionOpen records created by ConnectionResult::new
    recorded,       \* the outcomes given to result_tracker.record
    pool_calls,     \* the calls of pool.send_request_pooled
    dials,          \* the calls of freebind_connect
    drain,          \* whether the drain the task is raced against has been signaled
    \* the acceptor
    listener,       \* whose run this is: Outbound::run or Socks5::run
    run_pc,         \* where run is: in its select, awaiting the sub drain, returned
    accept_fut,     \* the accept future of run's select: pending, dropped or returned
    primary_drain,  \* whether self.drain has been signaled
    signal_pc,      \* where the owner of the primary drain is: idle, draining, drained
    sub_drain,      \* whether sub_drain_signal has been signaled
    tasks,          \* the per-connection tasks spawned, in order
    accept_log,     \* what the accept calls returned and what the loop did, in order
    \* the SOCKS5 handshake
    stream_in,      \* the bytes the client sends, in all
    read_pos,       \* how many of them handle has read
    hs,             \* the local variables of handle
    hs_pc,          \* where handle is
    written,        \* the replies handle has written to the client
    dispatch_call   \* the call of proxy_to_cancellable that handle's spawned task makes

acceptor_vars == <<listener, run_pc, accept_fut, primary_drain, signal_pc, sub_drain, tasks,
                   accept_log>>
handshake_vars == <<stream_in, read_pos, hs, hs_pc, written, dispatch_call>>
front_vars == <<acceptor_vars, handshake_vars, first>>

vars == <<cfg, conn, pc, bl, queries, answers, result, req, conn_guard, tracked, track_calls,
          release_calls, early_deny, result_tracker, open_records, recorded, pool_calls,
          dials, drain, front_vars>>

(***************************************************************************)
(* Option and Result                                                       *)
(***************************************************************************)
None == <<>>
Some(x) == <<x>>
is_some(o) == o # <<>>
is_none(o) == o = <<>>
unwrap(o) == o[1]

Ok(v) == [ok |-> TRUE, val |-> v]
Err(e) == [ok |-> FALSE, val |-> e]

(***************************************************************************)
(* Values                                                                  *)
(***************************************************************************)
\* ProxyInputs.hbone_port, and the hbone_mtls_port a waypoint reference carries
hbone_port == 15008
hbone_mtls_port == 15008

\* the addresses in use are 127.0.0.1 .. 127.0.0.MaxHost
MaxHost == 2
IpAddr(host) == <<127, 0, 0, host>>
IPs == { IpAddr(h) : h \in 1..MaxHost }
TargetPorts == {80, 8080}
UpstreamPorts == {8080, 15008}

SocketAddr(ip, port) == [ip |-> ip, port |-> port]

Protocols == {"TCP", "HBONE"}

\* Workload: the fields the outbound path and the directory read.  my-pod declares a
\* waypoint, the others declare none.
Workloads ==
    { [name |-> "test-tcp", service_account |-> "default", protocol |-> "TCP",
       waypoint |-> None],
      [name |-> "waypoint-workload", service_account |-> "waypoint-sa", protocol |-> "HBONE",
       waypoint |-> None],
      [name |-> "my-pod", service_account |-> "default", protocol |-> "TCP",
       waypoint |-> Some([destination |-> [kind |-> "Address", address |-> IpAddr(MaxHost),
                                           hostname |-> ""],
                          hbone_mtls_port |-> hbone_mtls_port])] }

\* Workload::identity
identity(wl) ==
    [trust_domain |-> "cluster.local", namespace |-> "ns",
     service_account |-> wl.service_account]

\* WorkloadInfo delivered over ZDS, and WorkloadInfo::matches
WorkloadInfos == { [name |-> "test-tcp", service_account |-> "default"] }
matches(wl_info, wl) ==
    /\ wl_info.name = wl.name
    /\ wl_info.service_account = wl.service_account

\* GatewayAddress: Destination::Address or Destination::Hostname, and the mTLS port
GatewayAddresses ==
    { [destination |-> [kind |-> "Address", address |-> ip, hostname |-> ""],
       hbone_mtls_port |-> hbone_mtls_port] : ip \in IPs }
    \cup { [destination |-> [kind |-> "Hostname", address |-> <<>>, hostname |-> "waypoint.ns"],
            hbone_mtls_port |-> hbone_mtls_port] }

\* Service: hostname and optional waypoint
Services ==
    { [hostname |-> "svc.ns.svc.cluster.local", waypoint |-> wp]
        : wp \in {None} \cup { Some(g) : g \in GatewayAddresses } }

\* ServiceDescription::from(&Service)
ServiceDescription(s) == [hostname |-> s.hostname, name |-> "svc", namespace |-> "ns"]

\* SAN strings, split at '/': a SPIFFE id, and a string that is none
GoodSan == <<"spiffe:", "", "cluster.local", "ns", "ns", "sa", "default">>
BadSan == <<"dns:", "", "example.com">>
SanStrings == {GoodSan, BadSan}

\* Upstream: workload, port, sans, destination_service.  The port is the directory's
\* mapping of the port asked for.  An upstream carries either no service and no sans,
\* or a service and its sans: one that is no identity followed by one that is.
Upstreams ==
    { [workload |-> w, port |-> p, sans |-> <<>>, destination_service |-> None]
        : w \in Workloads, p \in UpstreamPorts }
    \cup
    { [workload |-> w, port |-> p, sans |-> <<BadSan, GoodSan>>,
       destination_service |-> Some(ServiceDescription([hostname |-> "svc.ns.svc.cluster.local"]))]
        : w \in Workloads, p \in UpstreamPorts }

(***************************************************************************)
(* Errors                                                                  *)
(***************************************************************************)
SelfCall == <<"SelfCall">>
UnknownSource(ip) == <<"UnknownSource", ip>>
MismatchedSource(ip, wl_info) == <<"MismatchedSource", ip, wl_info.name>>
UnknownWaypoint(msg) == <<"UnknownWaypoint", msg>>
UnknownDestination(ip) == <<"UnknownDestination", ip>>
NoValidDestination == <<"NoValidDestination">>

(***************************************************************************)
(* The answers of the collaborators                                        *)
(***************************************************************************)
fetch_workload_answers == {None} \cup { Some(w) : w \in Workloads }

fetch_destination_answers ==
    {None}
    \cup { Some([kind |-> "Workload", service |-> None]) }
    \cup { Some([kind |-> "Service", service |-> Some(s)]) : s \in Services }

fetch_upstream_answers == {None} \cup { Some(u) : u \in Upstreams }

pick_workload_destination_answers == { Err(NoValidDestination) } \cup { Ok(ip) : ip \in IPs }

fetch_waypoint_answers ==
    { Ok(None), Err(<<"WaypointError">>) } \cup { Ok(Some(u)) : u \in Upstreams }

\* state.fetch_waypoint for workload wl: no waypoint where wl declares none; the
\* upstream of the waypoint wl declares, or an error
fetch_waypoint_of(wl) ==
    IF is_none(wl.waypoint) THEN { Ok(None) } ELSE fetch_waypoint_answers \ { Ok(None) }

io_answers == { Ok("done"), Err(<<"Io">>) }
pool_answers == { Ok("H2Stream"), Err(<<"Pool">>) }

(***************************************************************************)
(* build_request: the Requests it constructs                               *)
(***************************************************************************)
\* ServiceWaypointRequest, reporting the waypoint's address as the destination
ServiceWaypointRequest_waypoint_destination(source_workload, target, s, waypoint_us, waypoint_ip) ==
    [protocol |-> "HBONE",
     source |-> source_workload,
     destination |-> SocketAddr(waypoint_ip, waypoint_us.port),
     destination_workload |-> Some(waypoint_us.workload),
     destination_service |-> Some(ServiceDescription(s)),
     expected_identity |-> Some(identity(waypoint_us.workload)),
     gateway |-> SocketAddr(waypoint_ip, waypoint_us.port),
     request_type |-> "ToServerWaypoint",
     upstream_sans |-> waypoint_us.sans]

\* the waypoint found on the destination service
ServiceWaypointRequest(source_workload, target, s, waypoint_us, waypoint_ip) ==
    [protocol |-> "HBONE",
     source |-> source_workload,
     destination |-> target,
     destination_workload |-> Some(waypoint_us.workload),
     destination_service |-> Some(ServiceDescription(s)),
     expected_identity |-> Some(identity(waypoint_us.workload)),
     gateway |-> SocketAddr(waypoint_ip, waypoint_us.port),
     request_type |-> "ToServerWaypoint",
     upstream_sans |-> waypoint_us.sans]

\* PassthroughRequest, dialling the tunnel port of the target
PassthroughRequest_hbone_gateway(source_workload, target) ==
    [protocol |-> "TCP",
     source |-> source_workload,
     destination |-> target,
     destination_workload |-> None,
     destination_service |-> None,
     expected_identity |-> None,
     gateway |-> SocketAddr(target.ip, hbone_port),
     request_type |-> "Passthrough",
     upstream_sans |-> <<>>]

\* no upstream found
PassthroughRequest(source_workload, target) ==
    [protocol |-> "TCP",
     source |-> source_workload,
     destination |-> target,
     destination_workload |-> None,
     destination_service |-> None,
     expected_identity |-> None,
     gateway |-> target,
     request_type |-> "Passthrough",
     upstream_sans |-> <<>>]

\* apply_workload_waypoint without the from-waypoint test, and without the service test
apply_workload_waypoint_ignoring_from_waypoint(from_waypoint, svc_addressed) ==
    ~svc_addressed
apply_workload_waypoint_ignoring_svc_addressed(from_waypoint, svc_addressed) ==
    ~from_waypoint

\* apply_workload_waypoint, remembering that the pair was resolved before
apply_workload_waypoint_first_time(from_waypoint, svc_addressed) ==
    ~from_waypoint /\ ~svc_addressed /\ is_none(first)

\* the condition under which the upstream workload's waypoint is looked up
apply_workload_waypoint(from_waypoint, svc_addressed) ==
    ~from_waypoint /\ ~svc_addressed

\* WorkloadWaypointRequest, reporting the waypoint's address as the destination
WorkloadWaypointRequest_waypoint_destination(source_workload, target, us, waypoint_us, waypoint_ip) ==
    [protocol |-> "HBONE",
     source |-> source_workload,
     destination |-> SocketAddr(waypoint_ip, waypoint_us.port),
     destination_workload |-> Some(waypoint_us.workload),
     destination_service |-> us.destination_service,
     expected_identity |-> Some(identity(waypoint_us.workload)),
     gateway |-> SocketAddr(waypoint_ip, waypoint_us.port),
     request_type |-> "ToServerWaypoint",
     upstream_sans |-> us.sans]

\* WorkloadWaypointRequest, with the protocol the upstream workload declares
WorkloadWaypointRequest_upstream_protocol(source_workload, target, us, waypoint_us, waypoint_ip) ==
    [protocol |-> us.workload.protocol,
     source |-> source_workload,
     destination |-> target,
     destination_workload |-> Some(waypoint_us.workload),
     destination_service |-> us.destination_service,
     expected_identity |-> Some(identity(waypoint_us.workload)),
     gateway |-> SocketAddr(waypoint_ip, waypoint_us.port),
     request_type |-> "ToServerWaypoint",
     upstream_sans |-> us.sans]

\* the waypoint found on the upstream workload
WorkloadWaypointRequest(source_workload, target, us, waypoint_us, waypoint_ip) ==
    [protocol |-> "HBONE",
     source |-> source_workload,
     destination |-> target,
     destination_workload |-> Some(waypoint_us.workload),
     destination_service |-> us.destination_service,
     expected_identity |-> Some(identity(waypoint_us.workload)),
     gateway |-> SocketAddr(waypoint_ip, waypoint_us.port),
     request_type |-> "ToServerWaypoint",
     upstream_sans |-> us.sans]

\* DirectRequest, dialling the upstream's port whatever the protocol
DirectRequest_upstream_port_gateway(source_workload, us, workload_ip) ==
    [protocol |-> us.workload.protocol,
     source |-> source_workload,
     destination |-> SocketAddr(workload_ip, us.port),
     destination_workload |-> Some(us.workload),
     destination_service |-> us.destination_service,
     expected_identity |-> Some(identity(us.workload)),
     gateway |-> SocketAddr(workload_ip, us.port),
     request_type |-> "Direct",
     upstream_sans |-> us.sans]

\* no waypoint on either side
DirectRequest(source_workload, us, workload_ip) ==
    [protocol |-> us.workload.protocol,
     source |-> source_workload,
     destination |-> SocketAddr(workload_ip, us.port),
     destination_workload |-> Some(us.workload),
     destination_service |-> us.destination_service,
     expected_identity |-> Some(identity(us.workload)),
     gateway |-> IF us.workload.protocol = "HBONE"
                 THEN SocketAddr(workload_ip, hbone_port)
                 ELSE SocketAddr(workload_ip, us.port),
     request_type |-> "Direct",
     upstream_sans |-> us.sans]

(***************************************************************************)
(* The state after construction and accept                                 *)
(***************************************************************************)
Configs ==
    [proxy_mode : {"Shared", "Dedicated"},
     local_ip : {None, Some(IpAddr(2))},
     inpod_enabled : BOOLEAN,
     proxy_workload_info : {None} \cup { Some(i) : i \in WorkloadInfos }]

\* Outbound::run hands the connection to proxy, Socks5::run to handle
FrontEnds == {"outbound", "socks5"}

Connections ==
    [front_end : FrontEnds,
     source_addr : { SocketAddr(IpAddr(1), 40000) },
     dest_addr : { SocketAddr(ip, p) : ip \in IPs, p \in TargetPorts }]

\* build_request's locals before it has assigned them
NoLocals ==
    [source_workload |-> None, service |-> None, svc_addressed |-> FALSE,
     waypoint_vip |-> None, us |-> None, workload_ip |-> None, from_waypoint |-> FALSE,
     waypoint_us |-> None, waypoint_ip |-> None]

\* handle's locals before it has assigned them
NoHandshake ==
    [nmethods |-> 0, methods |-> <<>>, atyp |-> 0, domain_length |-> 0, ip |-> <<>>,
     port |-> 0, err |-> ""]

\* run has just been called: its select is pending and nothing was accepted
run_start ==
    /\ run_pc = "select"
    /\ accept_fut = "pending"
    /\ primary_drain = FALSE
    /\ signal_pc = "idle"
    /\ sub_drain = FALSE
    /\ tasks = <<>>
    /\ accept_log = <<>>

\* handle has just been called on a stream
handle_start ==
    /\ read_pos = 0
    /\ hs = NoHandshake
    /\ hs_pc = "read_version"
    /\ written = <<>>
    /\ dispatch_call = None

\* proxy_to has just been called and has done nothing
proxy_to_start ==
    /\ pc = "proxy_to"
    /\ bl = NoLocals
    /\ queries = <<>>
    /\ answers = <<>>
    /\ first = None
    /\ result = None
    /\ req = None
    /\ conn_guard = None
    /\ tracked = {}
    /\ track_calls = 0
    /\ release_calls = 0
    /\ early_deny = <<>>
    /\ result_tracker = None
    /\ open_records = <<>>
    /\ recorded = <<>>
    /\ pool_calls = <<>>
    /\ dials = <<>>
    /\ drain = FALSE

Init ==
    /\ cfg \in Configs
    /\ conn \in Connections
    /\ listener = conn.front_end
    /\ run_start
    /\ stream_in = <<>>
    /\ handle_start
    /\ pc = "proxy_to"
    /\ bl = NoLocals
    /\ queries = <<>>
    /\ answers = <<>>
    /\ first = None
    /\ result = None
    /\ req = None
    /\ conn_guard = None
    /\ tracked = {}
    /\ track_calls = 0
    /\ release_calls = 0
    /\ early_deny = <<>>
    /\ result_tracker = None
    /\ open_records = <<>>
    /\ recorded = <<>>
    /\ pool_calls = <<>>
    /\ dials = <<>>
    /\ drain = FALSE

\* block_passthrough, false for every front end
block_passthrough_never == FALSE

\* the arguments the front end gives proxy_to
block_passthrough == conn.front_end = "socks5"
out_drain == conn.front_end = "outbound" \/ cfg.inpod_enabled

downstream == conn.source_addr.ip
target == conn.dest_addr

dispatch_vars == <<req, conn_guard, tracked, track_calls, release_calls, early_deny,
                   result_tracker, open_records, recorded, pool_calls, dials>>

Asked(q) == \E i \in 1..Len(queries) : queries[i].query = q
Query(q, arg) == [query |-> q, arg |-> arg]

\* build_request returns r
Return(r) ==
    /\ result' = Some(r)
    /\ pc' = "build_request_ret"

(***************************************************************************)
(* proxy_to, up to the first directory query                               *)
(***************************************************************************)
\* self_call, also where the proxy runs in the pod of the workload
self_call_ignoring_inpod(c, dest_addr) ==
    /\ c.proxy_mode = "Shared"
    /\ Some(dest_addr.ip) = c.local_ip

\* self_call, the check left to after the resolution
self_call_unchecked(c, dest_addr) == FALSE

\* the call is addressed to the proxy itself
self_call(c, dest_addr) ==
    /\ c.proxy_mode = "Shared"
    /\ Some(dest_addr.ip) = c.local_ip
    /\ ~c.inpod_enabled

proxy_to ==
    /\ pc = "proxy_to"
    /\ IF self_call(cfg, conn.dest_addr)
       THEN /\ early_deny' = Append(early_deny, SelfCall)
            /\ pc' = "done"
       ELSE /\ pc' = "fetch_workload"
            /\ UNCHANGED early_deny
    /\ UNCHANGED <<front_vars, cfg, conn, bl, queries, answers, result, req, conn_guard, tracked, track_calls,
                   release_calls, result_tracker, open_records, recorded, pool_calls, dials,
                   drain>>

(***************************************************************************)
(* build_request, one action for each awaited query                        *)
(***************************************************************************)
\* the answers the directory can give to query q of a resolution: any of its kind; but
\* where the same query was made at the same point of an earlier resolution against the
\* same directory snapshot, the answer it gave then
directory(all, q) ==
    IF /\ is_some(first)
       /\ Len(queries) < Len(unwrap(first).queries)
       /\ unwrap(first).queries[Len(queries) + 1] = q
    THEN { unwrap(first).answers[Len(queries) + 1] }
    ELSE all

\* source_lookup, reporting a source that is not found as a mismatch of the proxy's own workload
source_lookup_mismatch_first(answer, ip, wl_info) ==
    IF is_some(wl_info) /\ (is_none(answer) \/ ~matches(unwrap(wl_info), unwrap(answer)))
    THEN Err(MismatchedSource(ip, unwrap(wl_info)))
    ELSE IF is_none(answer) THEN Err(UnknownSource(ip))
         ELSE Ok(unwrap(answer))

\* source_lookup without the match against the proxy's own workload
source_lookup_unmatched(answer, ip, wl_info) ==
    IF is_none(answer) THEN Err(UnknownSource(ip)) ELSE Ok(unwrap(answer))

\* what the source lookup leads to: an error, or the source workload
source_lookup(answer, ip, wl_info) ==
    IF is_none(answer) THEN Err(UnknownSource(ip))
    ELSE IF is_some(wl_info) /\ ~matches(unwrap(wl_info), unwrap(answer))
         THEN Err(MismatchedSource(ip, unwrap(wl_info)))
         ELSE Ok(unwrap(answer))

fetch_workload ==
    /\ pc = "fetch_workload"
    /\ \E answer \in directory(fetch_workload_answers, Query("fetch_workload", downstream)) :
          LET r == source_lookup(answer, downstream, cfg.proxy_workload_info)
          IN  /\ queries' = Append(queries, Query("fetch_workload", downstream))
          /\ answers' = Append(answers, answer)
              /\ bl' = [bl EXCEPT !.source_workload = answer]
              /\ IF r.ok
                 THEN /\ pc' = "fetch_destination"
                      /\ UNCHANGED result
                 ELSE Return(Err(r.val))
    /\ UNCHANGED <<front_vars, cfg, conn, drain>>
    /\ UNCHANGED dispatch_vars

fetch_destination ==
    /\ pc = "fetch_destination"
    /\ \E answer \in directory(fetch_destination_answers, Query("fetch_destination", target.ip)) :
          /\ queries' = Append(queries, Query("fetch_destination", target.ip))
          /\ answers' = Append(answers, answer)
          /\ IF is_some(answer) /\ unwrap(answer).kind = "Service"
             THEN LET s == unwrap(unwrap(answer).service)
                  IN  IF is_some(s.waypoint)
                      THEN LET wp == unwrap(s.waypoint)
                           IN  IF wp.destination.kind = "Hostname"
                               THEN /\ Return(Err(UnknownWaypoint("hostname lookup not supported yet")))
                                    /\ bl' = [bl EXCEPT !.service = Some(s)]
                               ELSE /\ bl' = [bl EXCEPT
                                                !.service = Some(s),
                                                !.waypoint_vip = Some(SocketAddr(wp.destination.address,
                                                                                 wp.hbone_mtls_port))]
                                    /\ pc' = "fetch_upstream_waypoint"
                                    /\ UNCHANGED result
                      ELSE /\ bl' = [bl EXCEPT !.service = Some(s), !.svc_addressed = TRUE]
                           /\ pc' = "fetch_upstream"
                           /\ UNCHANGED result
             ELSE /\ bl' = [bl EXCEPT !.svc_addressed = FALSE]
                  /\ pc' = "fetch_upstream"
                  /\ UNCHANGED result
    /\ UNCHANGED <<front_vars, cfg, conn, drain>>
    /\ UNCHANGED dispatch_vars

\* the upstream of the service's waypoint
fetch_upstream_waypoint ==
    /\ pc = "fetch_upstream_waypoint"
    /\ \E answer \in directory(fetch_upstream_answers, Query("fetch_upstream", unwrap(bl.waypoint_vip))) :
          /\ queries' = Append(queries, Query("fetch_upstream", unwrap(bl.waypoint_vip)))
          /\ answers' = Append(answers, answer)
          /\ IF is_none(answer)
             THEN /\ Return(Err(UnknownWaypoint("unable to determine waypoint upstream")))
                  /\ UNCHANGED bl
             ELSE /\ bl' = [bl EXCEPT !.waypoint_us = answer]
                  /\ pc' = "pick_service_waypoint"
                  /\ UNCHANGED result
    /\ UNCHANGED <<front_vars, cfg, conn, drain>>
    /\ UNCHANGED dispatch_vars

\* waypoint_pick_error, converting the error of the pick to UnknownWaypoint
waypoint_pick_error_as_unknown_waypoint(e) == UnknownWaypoint("no waypoint replica")

\* `.await?` on the pick of a waypoint's replica: its error is returned as it is
waypoint_pick_error(e) == e

\* the replica of the service's waypoint
pick_service_waypoint ==
    /\ pc = "pick_service_waypoint"
    /\ \E answer \in directory(pick_workload_destination_answers, Query("pick_workload_destination", unwrap(bl.waypoint_us).workload)) :
          /\ queries' = Append(queries, Query("pick_workload_destination",
                                              unwrap(bl.waypoint_us).workload))
          /\ answers' = Append(answers, answer)
          /\ IF answer.ok
             THEN /\ bl' = [bl EXCEPT !.waypoint_ip = Some(answer.val)]
                  /\ Return(Ok(ServiceWaypointRequest(unwrap(bl.source_workload), target,
                                                      unwrap(bl.service), unwrap(bl.waypoint_us),
                                                      answer.val)))
             ELSE /\ Return(Err(waypoint_pick_error(answer.val)))
                  /\ UNCHANGED bl
    /\ UNCHANGED <<front_vars, cfg, conn, drain>>
    /\ UNCHANGED dispatch_vars

\* the upstream of the target
fetch_upstream ==
    /\ pc = "fetch_upstream"
    /\ \E answer \in directory(fetch_upstream_answers, Query("fetch_upstream", target)) :
          /\ queries' = Append(queries, Query("fetch_upstream", target))
          /\ answers' = Append(answers, answer)
          /\ IF is_none(answer)
             THEN /\ Return(Ok(PassthroughRequest(unwrap(bl.source_workload), target)))
                  /\ UNCHANGED bl
             ELSE /\ bl' = [bl EXCEPT !.us = answer]
                  /\ pc' = "pick_workload_destination"
                  /\ UNCHANGED result
    /\ UNCHANGED <<front_vars, cfg, conn, drain>>
    /\ UNCHANGED dispatch_vars

pick_workload_destination ==
    /\ pc = "pick_workload_destination"
    /\ \E answer \in directory(pick_workload_destination_answers, Query("pick_workload_destination", unwrap(bl.us).workload)) :
          /\ queries' = Append(queries, Query("pick_workload_destination", unwrap(bl.us).workload))
          /\ answers' = Append(answers, answer)
          /\ IF answer.ok
             THEN /\ bl' = [bl EXCEPT !.workload_ip = Some(answer.val)]
                  /\ pc' = "check_from_waypoint"
                  /\ UNCHANGED result
             ELSE /\ Return(Err(answer.val))
                  /\ UNCHANGED bl
    /\ UNCHANGED <<front_vars, cfg, conn, drain>>
    /\ UNCHANGED dispatch_vars

check_from_waypoint ==
    /\ pc = "check_from_waypoint"
    /\ \E from_waypoint \in directory(BOOLEAN, Query("check_from_waypoint", unwrap(bl.us).workload)) :
          /\ queries' = Append(queries, Query("check_from_waypoint", unwrap(bl.us).workload))
          /\ answers' = Append(answers, from_waypoint)
          /\ bl' = [bl EXCEPT !.from_waypoint = from_waypoint]
          /\ IF apply_workload_waypoint(from_waypoint, bl.svc_addressed)
             THEN /\ pc' = "fetch_waypoint"
                  /\ UNCHANGED result
             ELSE Return(Ok(DirectRequest(unwrap(bl.source_workload), unwrap(bl.us),
                                          unwrap(bl.workload_ip))))
    /\ UNCHANGED <<front_vars, cfg, conn, drain>>
    /\ UNCHANGED dispatch_vars

\* waypoint_match, taking a failed lookup for a workload without a waypoint
waypoint_match_lenient(answer) ==
    IF ~answer.ok \/ is_none(answer.val) THEN "none" ELSE "waypoint"

\* the arm of the match on fetch_waypoint's answer
waypoint_match(answer) ==
    IF ~answer.ok THEN "error"
    ELSE IF is_none(answer.val) THEN "none" ELSE "waypoint"

\* waypoint_subject, the waypoint looked up for the source workload
waypoint_subject_source(us, source_workload) == source_workload

\* the workload whose waypoint fetch_waypoint is asked for
waypoint_subject(us, source_workload) == us.workload

fetch_waypoint ==
    /\ pc = "fetch_waypoint"
    /\ \E answer \in directory(fetch_waypoint_of(waypoint_subject(unwrap(bl.us),
                                                                  unwrap(bl.source_workload))),
                               Query("fetch_waypoint",
                                     waypoint_subject(unwrap(bl.us), unwrap(bl.source_workload)))) :
          /\ queries' = Append(queries,
                               Query("fetch_waypoint",
                                     waypoint_subject(unwrap(bl.us), unwrap(bl.source_workload))))
          /\ answers' = Append(answers, answer)
          /\ IF waypoint_match(answer) = "error"
             THEN /\ Return(Err(UnknownWaypoint("waypoint lookup failed")))
                  /\ UNCHANGED bl
             ELSE IF waypoint_match(answer) = "none"
                  THEN /\ Return(Ok(DirectRequest(unwrap(bl.source_workload), unwrap(bl.us),
                                                  unwrap(bl.workload_ip))))
                       /\ UNCHANGED bl
                  ELSE /\ bl' = [bl EXCEPT !.waypoint_us = answer.val]
                       /\ pc' = "pick_workload_waypoint"
                       /\ UNCHANGED result
    /\ UNCHANGED <<front_vars, cfg, conn, drain>>
    /\ UNCHANGED dispatch_vars

\* the replica of the upstream workload's waypoint
pick_workload_waypoint ==
    /\ pc = "pick_workload_waypoint"
    /\ \E answer \in directory(pick_workload_destination_answers, Query("pick_workload_destination", unwrap(bl.waypoint_us).workload)) :
          /\ queries' = Append(queries, Query("pick_workload_destination",
                                              unwrap(bl.waypoint_us).workload))
          /\ answers' = Append(answers, answer)
          /\ IF answer.ok
             THEN /\ bl' = [bl EXCEPT !.waypoint_ip = Some(answer.val)]
                  /\ Return(Ok(WorkloadWaypointRequest(unwrap(bl.source_workload), target,
                                                       unwrap(bl.us), unwrap(bl.waypoint_us),
                                                       answer.val)))
             ELSE /\ Return(Err(waypoint_pick_error(answer.val)))
                  /\ UNCHANGED bl
    /\ UNCHANGED <<front_vars, cfg, conn, drain>>
    /\ UNCHANGED dispatch_vars

build_request ==
    \/ fetch_workload
    \/ fetch_destination
    \/ fetch_upstream_waypoint
    \/ pick_service_waypoint
    \/ fetch_upstream
    \/ pick_workload_destination
    \/ check_from_waypoint
    \/ fetch_waypoint
    \/ pick_workload_waypoint

(***************************************************************************)
(* proxy_to, from build_request's return to the outbound leg               *)
(***************************************************************************)
\* early_deny_error, reporting every denial as an unknown destination
early_deny_error_as_unknown_destination(res, block) ==
    IF ~res.ok THEN Some(UnknownDestination(conn.dest_addr.ip))
    ELSE IF block /\ is_none(res.val.destination_workload)
         THEN Some(UnknownDestination(res.val.destination.ip))
         ELSE None

\* the error the connection is denied with before dispatch, if any
early_deny_error(res, block) ==
    IF ~res.ok THEN Some(res.val)
    ELSE IF block /\ is_none(res.val.destination_workload)
         THEN Some(UnknownDestination(res.val.destination.ip))
         ELSE None

\* connection_manager.track_outbound's key
track_outbound(source_addr, dest_addr, gateway) ==
    [src |-> source_addr, dst |-> dest_addr, gateway |-> gateway]

conn_metrics_from_request(r) ==
    [reporter |-> "source",
     derived_source |-> None,
     source |-> Some(r.source),
     destination |-> r.destination_workload,
     connection_security_policy |-> IF r.protocol = "HBONE" THEN "mutual_tls" ELSE "unknown",
     destination_service |-> r.destination_service]

\* ConnectionResult::new
ConnectionResult(source_addr, r) ==
    [src |-> source_addr,
     dst |-> r.gateway,
     hbone_target |-> IF r.protocol = "HBONE" THEN Some(r.destination) ELSE None,
     conn_open |-> conn_metrics_from_request(r)]

\* Identity::from_str of a SAN
identity_from_str(san) ==
    IF /\ Len(san) = 7
       /\ san[1] = "spiffe:" /\ san[2] = ""
       /\ san[4] = "ns" /\ san[6] = "sa"
    THEN Ok([trust_domain |-> san[3], namespace |-> san[5], service_account |-> san[7]])
    ELSE Err(<<"Spiffe">>)

\* the SANs that parse, in order
RECURSIVE parse_sans(_)
parse_sans(sans) ==
    IF sans = <<>> THEN <<>>
    ELSE LET r == identity_from_str(Head(sans))
         IN  (IF r.ok THEN <<r.val>> ELSE <<>>) \o parse_sans(Tail(sans))

\* allowed_sans without the push of the expected identity
allowed_sans_without_expected_identity(r) == parse_sans(r.upstream_sans)

\* build_hbone_request's allowed_sans
allowed_sans(r) == Append(parse_sans(r.upstream_sans), unwrap(r.expected_identity))

\* build_hbone_request's pool key
WorkloadKey(remote_addr, r) ==
    [src_id |-> identity(r.source),
     dst_id |-> allowed_sans(r),
     src |-> remote_addr.ip,
     dst |-> r.gateway]

\* hbone_request, addressed to the gateway
hbone_request_to_gateway(remote_addr, r) ==
    [method |-> "CONNECT",
     uri |-> r.gateway,
     forwarded_for |-> remote_addr,
     forwarded_host |-> IF is_some(r.destination_service)
                        THEN Some(unwrap(r.destination_service).hostname)
                        ELSE None,
     baggage |-> r.source.name]

\* build_hbone_request's CONNECT request
hbone_request(remote_addr, r) ==
    [method |-> "CONNECT",
     uri |-> r.destination,
     forwarded_for |-> remote_addr,
     forwarded_host |-> IF is_some(r.destination_service)
                        THEN Some(unwrap(r.destination_service).hostname)
                        ELSE None,
     baggage |-> r.source.name]

\* let _ = track_outbound(..): the guard is dropped at once
hold_conn_guard_dropped_at_once(guard) ==
    /\ conn_guard' = None
    /\ tracked' = tracked
    /\ track_calls' = track_calls + 1
    /\ release_calls' = release_calls + 1

\* let _conn_guard = track_outbound(..): the connection is tracked while the guard lives
hold_conn_guard(guard) ==
    /\ conn_guard' = Some(guard)
    /\ tracked' = tracked \cup {guard}
    /\ track_calls' = track_calls + 1
    /\ UNCHANGED release_calls

\* _conn_guard goes out of scope
drop_conn_guard ==
    IF is_some(conn_guard)
    THEN /\ tracked' = tracked \ {unwrap(conn_guard)}
         /\ release_calls' = release_calls + 1
         /\ conn_guard' = None
    ELSE UNCHANGED <<tracked, release_calls, conn_guard>>

proxy_to_dispatch ==
    /\ pc = "build_request_ret"
    /\ LET res == unwrap(result)
           deny == early_deny_error(res, block_passthrough)
       IN  IF is_some(deny)
           THEN /\ early_deny' = Append(early_deny, unwrap(deny))
                /\ pc' = "done"
                /\ UNCHANGED <<req, conn_guard, tracked, track_calls, release_calls,
                               result_tracker, open_records, recorded, pool_calls, dials>>
           ELSE LET r == res.val
                    guard == track_outbound(conn.source_addr, conn.dest_addr, r.gateway)
                IN  /\ req' = Some(r)
                    /\ hold_conn_guard(guard)
                    /\ result_tracker' = Some(ConnectionResult(conn.source_addr, r))
                    /\ open_records' = Append(open_records, conn_metrics_from_request(r))
                    /\ IF r.protocol = "HBONE"
                       THEN /\ pool_calls' = Append(pool_calls,
                                                    [key |-> WorkloadKey(conn.source_addr, r),
                                                     request |-> hbone_request(conn.source_addr, r)])
                            /\ pc' = "send_request_pooled"
                            /\ UNCHANGED dials
                       ELSE /\ dials' = Append(dials, r.gateway)
                            /\ pc' = "freebind_connect"
                            /\ UNCHANGED pool_calls
                    /\ UNCHANGED <<early_deny, recorded>>
    /\ bl' = NoLocals
    /\ answers' = <<>>
    /\ result' = None
    /\ UNCHANGED <<front_vars, cfg, conn, queries, drain>>

\* record, where the leg's error returns from proxy_to before it is recorded
record_skipping_errors(res) ==
    /\ recorded' = IF res.ok THEN Append(recorded, res) ELSE recorded
    /\ drop_conn_guard
    /\ req' = None
    /\ result_tracker' = None
    /\ pc' = "done"
    /\ UNCHANGED <<front_vars, cfg, conn, bl, queries, answers, result, track_calls, early_deny,
                   open_records, pool_calls, dials, drain>>

\* result_tracker.record(res), and proxy_to returns
record(res) ==
    /\ recorded' = Append(recorded, res)
    /\ drop_conn_guard
    /\ req' = None
    /\ result_tracker' = None
    /\ pc' = "done"
    /\ UNCHANGED <<front_vars, cfg, conn, bl, queries, answers, result, track_calls, early_deny, open_records,
                   pool_calls, dials, drain>>

\* proxy_to_hbone: the pool answers
send_request_pooled ==
    /\ pc = "send_request_pooled"
    /\ \E answer \in pool_answers :
          IF answer.ok
          THEN /\ pc' = "copy_bidirectional"
               /\ UNCHANGED <<front_vars, cfg, conn, bl, queries, answers, result, drain>>
               /\ UNCHANGED dispatch_vars
          ELSE record(answer)

\* proxy_to_tcp: the dial answers
freebind_connect ==
    /\ pc = "freebind_connect"
    /\ \E answer \in io_answers :
          IF answer.ok
          THEN /\ pc' = "copy_bidirectional"
               /\ UNCHANGED <<front_vars, cfg, conn, bl, queries, answers, result, drain>>
               /\ UNCHANGED dispatch_vars
          ELSE record(answer)

\* the relay ends
copy_bidirectional ==
    /\ pc = "copy_bidirectional"
    /\ \E answer \in io_answers : record(answer)

(***************************************************************************)
(* The drain branch of the select the task runs in                         *)
(***************************************************************************)
\* the points at which proxy_to awaits
AwaitPoints ==
    {"fetch_workload", "fetch_destination", "fetch_upstream_waypoint", "pick_service_waypoint",
     "fetch_upstream", "pick_workload_destination", "check_from_waypoint", "fetch_waypoint",
     "pick_workload_waypoint", "send_request_pooled", "freebind_connect", "copy_bidirectional"}

\* the points at which the drain can be seen signaled while proxy_to has not returned:
\* before proxy_to is first polled, and wherever it awaits
CancelPoints == {"proxy_to"} \cup AwaitPoints

\* the select, racing proxy_to against the drain whether or not a handle was given
select_drain_ignoring_handle(handle, signaled) == signaled

\* whether the drain branch of the select completes: only a task that was given a drain
\* handle races proxy_to against it
select_drain(handle, signaled) == handle /\ signaled

\* the drain is signaled while proxy_to is pending: where it is raced against the drain
\* its future is dropped, elsewhere it goes on
drain_signaled ==
    /\ pc \in CancelPoints
    /\ ~drain
    /\ drain' = TRUE
    /\ IF select_drain(out_drain, TRUE)
       THEN /\ pc' = "cancelled"
            /\ drop_conn_guard
            /\ bl' = NoLocals
            /\ answers' = <<>>
            /\ result' = None
            /\ req' = None
            /\ result_tracker' = None
       ELSE UNCHANGED <<pc, conn_guard, tracked, release_calls, bl, answers, result, req,
                        result_tracker>>
    /\ UNCHANGED <<front_vars, cfg, conn, queries, track_calls, early_deny, open_records, recorded,
                   pool_calls, dials>>

Next ==
    \/ proxy_to
    \/ build_request
    \/ proxy_to_dispatch
    \/ send_request_pooled
    \/ freebind_connect
    \/ copy_bidirectional
    \/ drain_signaled

Spec == Init /\ [][Next]_vars

(***************************************************************************)
(* Two resolutions of one pair against one directory snapshot              *)
(***************************************************************************)
\* build_request has returned, and is called again with the same source and target
resolve_again ==
    /\ pc = "build_request_ret"
    /\ is_none(first)
    /\ first' = Some([queries |-> queries, answers |-> answers, result |-> unwrap(result)])
    /\ pc' = "fetch_workload"
    /\ bl' = NoLocals
    /\ queries' = <<>>
    /\ answers' = <<>>
    /\ result' = None
    /\ UNCHANGED <<acceptor_vars, handshake_vars, cfg, conn, drain>>
    /\ UNCHANGED dispatch_vars

\* a connection of the outbound listener, to an address that is not the proxy's own
ResolveInit ==
    /\ cfg \in { c \in Configs : c.proxy_mode = "Shared" /\ c.local_ip = None /\ ~c.inpod_enabled }
    /\ conn \in { c \in Connections : c.front_end = "outbound" }
    /\ listener = conn.front_end
    /\ run_start
    /\ stream_in = <<>>
    /\ handle_start
    /\ proxy_to_start

ResolveNext ==
    \/ proxy_to
    \/ build_request
    \/ resolve_again

ResolveSpec == ResolveInit /\ [][ResolveNext]_vars

(***************************************************************************)
(* The accept loop of Outbound::run and of Socks5::run                     *)
(***************************************************************************)
\* the accept calls that are followed
MaxAccepts == 3

conn_vars == <<cfg, conn, pc, bl, queries, answers, result, req, conn_guard, tracked, track_calls,
               release_calls, early_deny, result_tracker, open_records, recorded, pool_calls,
               dials, drain, first>>

\* what listener.accept() returns: a stream, an error, an error of the runtime shutting down
accept_answers == {"stream", "error", "runtime_shutdown"}

\* util::is_runtime_shutdown
is_runtime_shutdown(e) == e = "runtime_shutdown"

\* on_accept_error, where any error ends the loop
on_accept_error_returning(e) == "return"

\* what the loop does with an accept error
on_accept_error(e) == IF is_runtime_shutdown(e) THEN "return" ELSE "log"

\* serve_outbound_connection, the clone of sub_drain not moved into the task
serve_outbound_connection_without_watch ==
    [state |-> "running", watch |-> "none", holds |-> "none", outcome |-> "none"]

\* the task Outbound::run spawns: it owns outbound_drain, a clone of sub_drain, and
\* races oc.proxy against it
serve_outbound_connection ==
    [state |-> "running", watch |-> "sub_drain", holds |-> "sub_drain", outcome |-> "none"]

\* serve_socks5_connection, the drain handed to proxy_to_cancellable in every mode
serve_socks5_connection_always_cancellable(is_inpod) ==
    [state |-> "handshake", watch |-> "drain", holds |-> "drain", outcome |-> "none"]

\* the task Socks5::run spawns: handle, which is in its handshake first and then
\* spawns the dispatch, whose proxy_to_cancellable is given the listener's drain if
\* inpod is enabled and no drain otherwise; handle owns stream_drain, a clone of the
\* listener's drain, in either case
serve_socks5_connection(is_inpod) ==
    [state |-> "handshake", watch |-> IF is_inpod THEN "drain" ELSE "none",
     holds |-> "drain", outcome |-> "none"]

\* outbound_drain_signaled, for a task that does not race its proxy operation
outbound_drain_signaled_never(t) == FALSE

\* whether the drain branch of a task's select is ready
outbound_drain_signaled(t) ==
    \/ t.watch = "sub_drain" /\ sub_drain
    \/ t.watch = "drain" /\ primary_drain

\* accept_after_drain, the accept loop living on beside the select
accept_after_drain_kept == "pending"

\* what the drain branch of run's select leaves of the accept future: the select drops
\* it, and with it the listener and the loop's own sub_drain
accept_after_drain == "dropped"

\* the Watch handles of the sub drain that are alive: the accept loop's own, and that of
\* every task that has not ended
watches ==
    (IF accept_fut = "pending" THEN 1 ELSE 0)
    + Cardinality({ i \in 1..Len(tasks) :
                      tasks[i].state = "running" /\ tasks[i].watch = "sub_drain" })

\* sub_drain_signal.drain() completes when every Watch has been dropped
drained == watches = 0

AcceptorInit ==
    /\ listener \in FrontEnds
    /\ cfg \in { c \in Configs : /\ c.proxy_mode = "Shared"
                                 /\ c.local_ip = None
                                 /\ c.proxy_workload_info = None }
    /\ conn = [front_end |-> listener,
               source_addr |-> SocketAddr(IpAddr(1), 40000),
               dest_addr |-> SocketAddr(IpAddr(1), 80)]
    /\ run_start
    /\ stream_in = <<>>
    /\ handle_start
    /\ proxy_to_start

\* listener.accept() returns: a task is spawned, or the error is logged and the loop
\* goes on, or the loop and run return
accept ==
    /\ accept_fut = "pending"
    /\ Len(accept_log) < MaxAccepts
    /\ \E socket \in accept_answers :
          IF socket = "stream"
          THEN /\ tasks' = Append(tasks, IF listener = "outbound"
                                         THEN serve_outbound_connection
                                         ELSE serve_socks5_connection(cfg.inpod_enabled))
               /\ accept_log' = Append(accept_log, [socket |-> socket, did |-> "spawned"])
               /\ UNCHANGED <<accept_fut, run_pc>>
          ELSE IF on_accept_error(socket) = "return"
               THEN /\ accept_fut' = "returned"
                    /\ run_pc' = "returned"
                    /\ accept_log' = Append(accept_log, [socket |-> socket, did |-> "returned"])
                    /\ UNCHANGED tasks
               ELSE /\ accept_log' = Append(accept_log, [socket |-> socket, did |-> "logged"])
                    /\ UNCHANGED <<tasks, accept_fut, run_pc>>
    /\ UNCHANGED <<listener, primary_drain, signal_pc, sub_drain>>
    /\ UNCHANGED <<conn_vars, handshake_vars>>

\* the owner of the primary drain signals it
drain_signal ==
    /\ ~primary_drain
    /\ primary_drain' = TRUE
    /\ signal_pc' = "draining"
    /\ UNCHANGED <<listener, run_pc, accept_fut, sub_drain, tasks, accept_log>>
    /\ UNCHANGED <<conn_vars, handshake_vars>>

\* the drain branch of run's select: Outbound::run goes on to signal the sub drain and
\* to await it, Socks5::run returns
run_drain_signaled ==
    /\ run_pc = "select"
    /\ primary_drain
    /\ accept_fut' = accept_after_drain
    /\ IF listener = "outbound"
       THEN /\ sub_drain' = TRUE
            /\ run_pc' = "draining"
       ELSE /\ run_pc' = "drained"
            /\ UNCHANGED sub_drain
    /\ UNCHANGED <<listener, primary_drain, signal_pc, tasks, accept_log>>
    /\ UNCHANGED <<conn_vars, handshake_vars>>

\* sub_drain_signal.drain().await returns, and run with it
run_drained ==
    /\ run_pc = "draining"
    /\ drained
    /\ run_pc' = "drained"
    /\ UNCHANGED <<listener, accept_fut, primary_drain, signal_pc, sub_drain, tasks, accept_log>>
    /\ UNCHANGED <<conn_vars, handshake_vars>>

\* the ways proxy_to returns: the relay ended well, the connection was denied before
\* dispatch, the pool or the dial failed, the relay failed
proxy_outcomes == {"ok", "early_deny", "leg_error", "relay_error"}

\* loop_after_task, a failure of the task returned to the accept loop
loop_after_task_propagating(outcome) == IF outcome = "ok" THEN "pending" ELSE "returned"

\* what the end of a task's proxy operation leaves of the pending accept: proxy_to logs
\* or records every failure and returns (), the task discards it, and the task was
\* spawned, not awaited
loop_after_task(outcome) == "pending"

\* the proxy operation of task i completes, and the task ends
task_proxy_completes(i) ==
    /\ tasks[i].state = "running"
    /\ \E outcome \in proxy_outcomes :
          /\ tasks' = [tasks EXCEPT ![i].state = "completed", ![i].outcome = outcome,
                                    ![i].holds = "none"]
          /\ accept_fut' = IF accept_fut = "pending" THEN loop_after_task(outcome) ELSE accept_fut
    /\ UNCHANGED <<listener, run_pc, primary_drain, signal_pc, sub_drain, accept_log>>
    /\ UNCHANGED <<conn_vars, handshake_vars>>

\* task i sees its drain signaled: its proxy operation is dropped, and the task ends
task_drain_signaled(i) ==
    /\ tasks[i].state = "running"
    /\ outbound_drain_signaled(tasks[i])
    /\ tasks' = [tasks EXCEPT ![i].state = "drained", ![i].holds = "none"]
    /\ UNCHANGED <<listener, run_pc, accept_fut, primary_drain, signal_pc, sub_drain, accept_log>>
    /\ UNCHANGED <<conn_vars, handshake_vars>>

\* spawned_dispatch_holds, out_drain dropped where it is not handed on
spawned_dispatch_holds_if_cancellable(is_inpod) == IF is_inpod THEN "drain" ELSE "none"

\* what the future handle spawns owns of the drain: the async move block captures
\* out_drain whether or not it moves it into the Option given to proxy_to_cancellable
spawned_dispatch_holds(is_inpod) == "drain"

\* the handshake of task i ends: handle has spawned the dispatch, or has returned an
\* error and dropped out_drain
task_handshake_ends(i) ==
    /\ tasks[i].state = "handshake"
    /\ \E outcome \in {"running", "failed"} :
          tasks' = [tasks EXCEPT ![i].state = outcome,
                                 ![i].holds = IF outcome = "running"
                                              THEN spawned_dispatch_holds(cfg.inpod_enabled)
                                              ELSE "none"]
    /\ UNCHANGED <<listener, run_pc, accept_fut, primary_drain, signal_pc, sub_drain, accept_log>>
    /\ UNCHANGED <<conn_vars, handshake_vars>>

task_ends ==
    \E i \in 1..Len(tasks) :
        \/ task_handshake_ends(i)
        \/ task_proxy_completes(i)
        \/ task_drain_signaled(i)

\* the Watch handles of the primary drain that are alive: those of run, which owns
\* self.drain and the accept loop's clone of it until it returns, and that of every task
\* holding a clone
drain_watches ==
    (IF run_pc \in {"select", "draining"} THEN 1 ELSE 0)
    + Cardinality({ i \in 1..Len(tasks) : tasks[i].holds = "drain" })

\* the drain().await of the owner of the primary drain returns: every Watch of it has
\* been dropped
signal_drained ==
    /\ signal_pc = "draining"
    /\ drain_watches = 0
    /\ signal_pc' = "drained"
    /\ UNCHANGED <<listener, run_pc, accept_fut, primary_drain, sub_drain, tasks, accept_log>>
    /\ UNCHANGED <<conn_vars, handshake_vars>>

AcceptorNext ==
    \/ accept
    \/ drain_signal
    \/ signal_drained
    \/ run_drain_signaled
    \/ run_drained
    \/ task_ends

AcceptorSpec == AcceptorInit /\ [][AcceptorNext]_vars

\* the scheduler polls run and every task whose drain branch is ready; that a proxy
\* operation ever completes is assumed of none
AcceptorFairness ==
    /\ WF_vars(run_drain_signaled)
    /\ WF_vars(run_drained)
    /\ \A i \in 1..MaxAccepts : WF_vars(i <= Len(tasks) /\ task_drain_signaled(i))

LiveAcceptorSpec == AcceptorSpec /\ AcceptorFairness

(***************************************************************************)
(* The SOCKS5 handshake: handle                                            *)
(***************************************************************************)
\* the authentication methods a client offers at most
MaxMethods == 2

\* what a client may send: a greeting (version, method count, methods), then a request
\* (version, command, RSV, address type, address, port), cut off anywhere
MethodLists == UNION { [1..n -> {0, 2}] : n \in 0..MaxMethods }
address_bytes(atyp) ==
    IF atyp = 1 THEN <<127, 0, 0, 2>>
    ELSE IF atyp = 4 THEN <<0, 0, 0, 0, 0, 0, 0, 0, 0, 0, 0, 0, 0, 0, 0, 1>>
    ELSE IF atyp = 3 THEN <<2, 97, 98>>
    ELSE <<>>
ClientMessages ==
    { <<v, Len(m)>> \o m \o <<v2, c, 0, a>> \o address_bytes(a) \o p :
        v \in {4, 5}, m \in MethodLists, v2 \in {4, 5}, c \in {1, 2}, a \in {1, 3, 4, 9},
        p \in { <<0, 80>>, <<31, 144>> } }
ClientStreams == UNION { { SubSeq(msg, 1, k) : k \in 0..Len(msg) } : msg \in ClientMessages }

\* the replies of handle: the method selection, and the success reply
method_selection == <<5, 0>>
success_reply == <<5, 0, 0, 1, 0, 0, 0, 0, 0, 0>>

\* BigEndian::read_u16
read_u16(b) == b[1] * 256 + b[2]

\* stream.read_exact of n bytes: the bytes, or an error if the stream ends before
can_read(n) == read_pos + n <= Len(stream_in)
read_bytes(n) == SubSeq(stream_in, read_pos + 1, read_pos + n)

\* handle returns Err(e)
handle_err(e) ==
    /\ hs_pc' = "error"
    /\ hs' = [hs EXCEPT !.err = e]

\* auth_method_offered, accepting whatever the client offers
auth_method_offered_any(methods) == TRUE

\* methods.into_iter().any(|x| x == 0)
auth_method_offered(methods) == \E i \in 1..Len(methods) : methods[i] = 0

\* the address types handle goes on with: IPv4 and IPv6
address_type_supported(atyp) == atyp \in {1, 4}

HandshakeInit ==
    /\ stream_in \in ClientStreams
    /\ handle_start
    /\ listener = "socks5"
    /\ cfg \in { c \in Configs : /\ c.proxy_mode = "Shared"
                                 /\ c.local_ip = None
                                 /\ c.proxy_workload_info = None }
    /\ conn = [front_end |-> "socks5",
               source_addr |-> SocketAddr(IpAddr(1), 40000),
               dest_addr |-> SocketAddr(IpAddr(1), 80)]
    /\ run_start
    /\ proxy_to_start

handshake_frame == UNCHANGED <<stream_in, conn_vars, acceptor_vars>>

\* Version(5), number of auth methods
read_version ==
    /\ hs_pc = "read_version"
    /\ IF ~can_read(2)
       THEN handle_err("io") /\ UNCHANGED read_pos
       ELSE LET version == read_bytes(2)
            IN  /\ read_pos' = read_pos + 2
                /\ IF version[1] # 5 THEN handle_err("Invalid version")
                   ELSE IF version[2] = 0 THEN handle_err("Invalid auth methods")
                   ELSE /\ hs' = [hs EXCEPT !.nmethods = version[2]]
                        /\ hs_pc' = "read_methods"
    /\ UNCHANGED <<written, dispatch_call>>
    /\ handshake_frame

\* the auth methods offered
read_methods ==
    /\ hs_pc = "read_methods"
    /\ IF ~can_read(hs.nmethods)
       THEN handle_err("io") /\ UNCHANGED read_pos
       ELSE LET methods == read_bytes(hs.nmethods)
            IN  /\ read_pos' = read_pos + hs.nmethods
                /\ IF ~auth_method_offered(methods) THEN handle_err("unsupported auth method")
                   ELSE /\ hs' = [hs EXCEPT !.methods = methods]
                        /\ hs_pc' = "write_method_selection"
    /\ UNCHANGED <<written, dispatch_call>>
    /\ handshake_frame

\* select 'unauthenticated'
write_method_selection ==
    /\ hs_pc = "write_method_selection"
    /\ \E answer \in io_answers :
          IF answer.ok
          THEN /\ written' = Append(written, method_selection)
               /\ hs_pc' = "read_version_command"
               /\ UNCHANGED hs
          ELSE /\ handle_err("io")
               /\ UNCHANGED written
    /\ UNCHANGED <<read_pos, dispatch_call>>
    /\ handshake_frame

\* Version(5), command: only CONNECT
read_version_command ==
    /\ hs_pc = "read_version_command"
    /\ IF ~can_read(2)
       THEN handle_err("io") /\ UNCHANGED read_pos
       ELSE LET version_command == read_bytes(2)
            IN  /\ read_pos' = read_pos + 2
                /\ IF version_command[1] # 5 THEN handle_err("unsupported version")
                   ELSE IF version_command[2] # 1 THEN handle_err("unsupported command")
                   ELSE /\ hs_pc' = "read_rsv"
                        /\ UNCHANGED hs
    /\ UNCHANGED <<written, dispatch_call>>
    /\ handshake_frame

\* skip RSV
read_rsv ==
    /\ hs_pc = "read_rsv"
    /\ IF ~can_read(1)
       THEN handle_err("io") /\ UNCHANGED read_pos
       ELSE /\ read_pos' = read_pos + 1
            /\ hs_pc' = "read_atyp"
            /\ UNCHANGED hs
    /\ UNCHANGED <<written, dispatch_call>>
    /\ handshake_frame

\* the address type
read_atyp ==
    /\ hs_pc = "read_atyp"
    /\ IF ~can_read(1)
       THEN handle_err("io") /\ UNCHANGED read_pos
       ELSE LET atyp == read_bytes(1)[1]
            IN  /\ read_pos' = read_pos + 1
                /\ IF address_type_supported(atyp)
                   THEN /\ hs' = [hs EXCEPT !.atyp = atyp]
                        /\ hs_pc' = "read_host"
                   ELSE IF atyp = 3
                        THEN /\ hs' = [hs EXCEPT !.atyp = atyp]
                             /\ hs_pc' = "read_domain_length"
                        ELSE handle_err("unsupported host")
    /\ UNCHANGED <<written, dispatch_call>>
    /\ handshake_frame

\* the 4 bytes of an IPv4 address, the 16 of an IPv6 address
read_host ==
    /\ hs_pc = "read_host"
    /\ LET n == IF hs.atyp = 1 THEN 4 ELSE 16
       IN  IF ~can_read(n)
           THEN handle_err("io") /\ UNCHANGED read_pos
           ELSE /\ read_pos' = read_pos + n
                /\ hs' = [hs EXCEPT !.ip = read_bytes(n)]
                /\ hs_pc' = "read_port"
    /\ UNCHANGED <<written, dispatch_call>>
    /\ handshake_frame

\* the length of a domain name
read_domain_length ==
    /\ hs_pc = "read_domain_length"
    /\ IF ~can_read(1)
       THEN handle_err("io") /\ UNCHANGED read_pos
       ELSE /\ read_pos' = read_pos + 1
            /\ hs' = [hs EXCEPT !.domain_length = read_bytes(1)[1]]
            /\ hs_pc' = "read_domain"
    /\ UNCHANGED <<written, dispatch_call>>
    /\ handshake_frame

\* the domain name, which is read and refused
read_domain ==
    /\ hs_pc = "read_domain"
    /\ IF ~can_read(hs.domain_length)
       THEN handle_err("io") /\ UNCHANGED read_pos
       ELSE /\ read_pos' = read_pos + hs.domain_length
            /\ handle_err("unsupported host")
    /\ UNCHANGED <<written, dispatch_call>>
    /\ handshake_frame

read_port ==
    /\ hs_pc = "read_port"
    /\ IF ~can_read(2)
       THEN handle_err("io") /\ UNCHANGED read_pos
       ELSE /\ read_pos' = read_pos + 2
            /\ hs' = [hs EXCEPT !.port = read_u16(read_bytes(2))]
            /\ hs_pc' = "write_reply"
    /\ UNCHANGED <<written, dispatch_call>>
    /\ handshake_frame

\* the success reply, and the spawn of the task that calls proxy_to_cancellable
write_reply ==
    /\ hs_pc = "write_reply"
    /\ \E answer \in io_answers :
          IF answer.ok
          THEN /\ written' = Append(written, success_reply)
               /\ dispatch_call' =
                     Some([remote_addr |-> conn.source_addr,
                           orig_dst_addr |-> SocketAddr(hs.ip, hs.port),
                           block_passthrough |-> block_passthrough,
                           out_drain |-> cfg.inpod_enabled])
               /\ hs_pc' = "spawned"
               /\ UNCHANGED hs
          ELSE /\ handle_err("io")
               /\ UNCHANGED <<written, dispatch_call>>
    /\ UNCHANGED read_pos
    /\ handshake_frame

handle ==
    \/ read_version
    \/ read_methods
    \/ write_method_selection
    \/ read_version_command
    \/ read_rsv
    \/ read_atyp
    \/ read_host
    \/ read_domain_length
    \/ read_domain
    \/ read_port
    \/ write_reply

HandshakeSpec == HandshakeInit /\ [][handle]_vars

(***************************************************************************)
(* Properties of build_request, read where it returns: its locals and its  *)
(* result are both in view there.                                          *)
(***************************************************************************)
AtReturn == pc = "build_request_ret"
returned == unwrap(result)
returned_request == unwrap(result).val

\* the lookup of the target's upstream was made and found nothing
TargetUpstreamMiss ==
    /\ AtReturn
    /\ Len(queries) = 3
    /\ queries[3].query = "fetch_upstream"
    /\ is_none(bl.waypoint_vip)
    /\ queries[3].arg = target
    /\ is_none(bl.us)

\* C1: whenever the source resolved, the destination is no service with a waypoint and
\* the directory has no upstream for the target socket, build_request succeeds with a
\* TCP Passthrough request whose destination and gateway are the target socket as
\* given, with no destination workload, service or expected identity and no SANs.
C1_UpstreamMissIsPassthrough ==
    TargetUpstreamMiss =>
        /\ is_some(bl.source_workload)
        /\ returned.ok
        /\ returned_request =
              [protocol |-> "TCP",
               source |-> unwrap(bl.source_workload),
               destination |-> conn.dest_addr,
               destination_workload |-> None,
               destination_service |-> None,
               expected_identity |-> None,
               gateway |-> conn.dest_addr,
               request_type |-> "Passthrough",
               upstream_sans |-> <<>>]

C1_Witness ==
    /\ TargetUpstreamMiss
    /\ returned.ok
    /\ returned_request.request_type = "Passthrough"
    /\ conn.dest_addr.port # hbone_port

\* C2: when the directory has no workload for the source IP, build_request fails with
\* UnknownSource of that IP after this one query, whatever the destination, and a
\* connection denied with UnknownSource never gets a ConnectionResult: it is not
\* tracked, no open record is created and nothing is recorded.
C2_UnknownSource ==
    /\ (AtReturn /\ is_none(bl.source_workload)) =>
          /\ ~returned.ok
          /\ returned.val = UnknownSource(conn.source_addr.ip)
          /\ Len(queries) = 1
          /\ open_records = <<>>
    /\ (\E i \in 1..Len(early_deny) : early_deny[i][1] = "UnknownSource") =>
          /\ early_deny = << UnknownSource(conn.source_addr.ip) >>
          /\ pc = "done"
          /\ open_records = <<>>
          /\ is_none(result_tracker)
          /\ recorded = <<>>
          /\ track_calls = 0

C2_Witness ==
    /\ pc = "done"
    /\ early_deny = << UnknownSource(conn.source_addr.ip) >>
    /\ is_some(cfg.proxy_workload_info)
    /\ conn.dest_addr.ip # conn.source_addr.ip

\* build_request returned a Request from the branch of a service's waypoint
ServiceWaypointReturn ==
    /\ AtReturn
    /\ is_some(bl.waypoint_vip)
    /\ returned.ok

\* C3 as claimed: for a destination service with an address-form waypoint the Request
\* is HBONE, ToServerWaypoint, destined to the original target, expects the waypoint
\* workload's identity, and its gateway is the picked waypoint replica at the
\* hbone_mtls_port of the service's waypoint reference.
C3_GatewayAtMtlsPort ==
    ServiceWaypointReturn =>
        /\ returned_request.protocol = "HBONE"
        /\ returned_request.request_type = "ToServerWaypoint"
        /\ returned_request.destination = conn.dest_addr
        /\ returned_request.expected_identity = Some(identity(unwrap(bl.waypoint_us).workload))
        /\ returned_request.gateway =
              SocketAddr(unwrap(bl.waypoint_ip), unwrap(unwrap(bl.service).waypoint).hbone_mtls_port)

\* C3 as amended: the same, but the gateway port is the port of the upstream that the
\* directory returned for (waypoint address, hbone_mtls_port).
C3_GatewayAtWaypointUpstreamPort ==
    ServiceWaypointReturn =>
        /\ returned_request.protocol = "HBONE"
        /\ returned_request.request_type = "ToServerWaypoint"
        /\ returned_request.destination = conn.dest_addr
        /\ returned_request.expected_identity = Some(identity(unwrap(bl.waypoint_us).workload))
        /\ queries[3] = Query("fetch_upstream",
                              SocketAddr(unwrap(unwrap(bl.service).waypoint).destination.address,
                                         unwrap(unwrap(bl.service).waypoint).hbone_mtls_port))
        /\ returned_request.gateway =
              SocketAddr(unwrap(bl.waypoint_ip), unwrap(bl.waypoint_us).port)

C3_Witness ==
    /\ ServiceWaypointReturn
    /\ unwrap(bl.waypoint_us).port # hbone_mtls_port
    /\ unwrap(bl.waypoint_ip) # conn.dest_addr.ip
    /\ unwrap(bl.waypoint_ip) # unwrap(bl.waypoint_vip).ip

\* build_request returned a Request, an upstream was found and no waypoint was interposed
DirectReturn ==
    /\ AtReturn
    /\ returned.ok
    /\ is_some(bl.us)
    /\ is_none(bl.waypoint_us)

\* C4: with an upstream and no waypoint interposed the Request is Direct, its protocol
\* the upstream workload's, its destination (picked replica, upstream port), its
\* expected identity the upstream workload's, and its gateway (replica, hbone_port) for
\* HBONE and the destination for TCP.
C4_Direct ==
    DirectReturn =>
        /\ returned_request.request_type = "Direct"
        /\ returned_request.protocol = unwrap(bl.us).workload.protocol
        /\ returned_request.destination = SocketAddr(unwrap(bl.workload_ip), unwrap(bl.us).port)
        /\ returned_request.expected_identity = Some(identity(unwrap(bl.us).workload))
        /\ returned_request.protocol = "HBONE" =>
              returned_request.gateway = SocketAddr(unwrap(bl.workload_ip), hbone_port)
        /\ returned_request.protocol = "TCP" =>
              returned_request.gateway = returned_request.destination

C4_Witness ==
    /\ DirectReturn
    /\ returned_request.protocol = "HBONE"
    /\ unwrap(bl.us).port # hbone_port
    /\ unwrap(bl.workload_ip) # conn.dest_addr.ip

\* build_request returned a Request from the branch of the upstream workload's waypoint
WorkloadWaypointReturn ==
    /\ AtReturn
    /\ returned.ok
    /\ is_some(bl.us)
    /\ is_some(bl.waypoint_us)

\* C5: when the destination is not service-addressed, the connection is not from a
\* waypoint and the upstream workload has a waypoint, the Request is HBONE,
\* ToServerWaypoint, destined to the original target, carries the upstream's destination
\* service, dials (picked waypoint replica, waypoint upstream port) and expects the
\* waypoint workload's identity; no Request of this branch arises otherwise.
C5_WorkloadWaypoint ==
    WorkloadWaypointReturn =>
        /\ ~bl.svc_addressed
        /\ ~bl.from_waypoint
        /\ returned_request.protocol = "HBONE"
        /\ returned_request.request_type = "ToServerWaypoint"
        /\ returned_request.destination = conn.dest_addr
        /\ returned_request.destination_service = unwrap(bl.us).destination_service
        /\ returned_request.gateway =
              SocketAddr(unwrap(bl.waypoint_ip), unwrap(bl.waypoint_us).port)
        /\ returned_request.expected_identity = Some(identity(unwrap(bl.waypoint_us).workload))

C5_Witness ==
    /\ WorkloadWaypointReturn
    /\ unwrap(bl.waypoint_ip) # conn.dest_addr.ip
    /\ unwrap(bl.waypoint_us).port # conn.dest_addr.port
    /\ is_some(unwrap(bl.us).destination_service)

\* C6: once check_from_waypoint has answered true, the workload's waypoint is never
\* looked up and build_request returns a Direct request.
C6_FromWaypointIsDirect ==
    bl.from_waypoint =>
        /\ AtReturn
        /\ ~Asked("fetch_waypoint")
        /\ is_none(bl.waypoint_us)
        /\ returned.ok
        /\ returned_request.request_type = "Direct"

C6_Witness ==
    /\ AtReturn
    /\ bl.from_waypoint
    /\ ~bl.svc_addressed
    /\ returned_request.request_type = "Direct"

\* C7: when the destination IP is a service without a waypoint, the upstream workload's
\* waypoint is never looked up, and every Request returned is Direct or Passthrough
\* (the resolution otherwise ends with the error of the replica selection).
C7_ServiceWithoutWaypoint ==
    bl.svc_addressed =>
        /\ is_some(bl.service)
        /\ is_none(unwrap(bl.service).waypoint)
        /\ pc # "fetch_waypoint"
        /\ ~Asked("fetch_waypoint")
        /\ is_none(bl.waypoint_us)
        /\ AtReturn =>
              IF returned.ok
              THEN returned_request.request_type \in {"Direct", "Passthrough"}
              ELSE returned.val = NoValidDestination

C7_Witness ==
    /\ AtReturn
    /\ bl.svc_addressed
    /\ ~bl.from_waypoint
    /\ returned.ok
    /\ returned_request.request_type = "Direct"

\* C8 as claimed: the destination_workload of a returned Request is the backend workload
\* that was resolved for the target, also when that workload's waypoint is interposed:
\* it is never replaced by the waypoint's workload.
C8_DestinationWorkloadIsBackend ==
    (AtReturn /\ returned.ok /\ is_some(bl.us)) =>
        returned_request.destination_workload = Some(unwrap(bl.us).workload)

\* C9 as claimed: every HBONE Request has a non-empty upstream_sans.
C9_UpstreamSansNonEmpty ==
    /\ (AtReturn /\ returned.ok /\ returned_request.protocol = "HBONE") =>
          returned_request.upstream_sans # <<>>
    /\ (is_some(req) /\ unwrap(req).protocol = "HBONE") =>
          unwrap(req).upstream_sans # <<>>

\* C9 as amended: every HBONE Request has an expected identity, and the identities the
\* pool is asked to accept for it (the upstream_sans that parse, then the expected
\* identity) are never empty and end with the expected identity.
C9_AllowedSansNonEmpty ==
    /\ (AtReturn /\ returned.ok /\ returned_request.protocol = "HBONE") =>
          is_some(returned_request.expected_identity)
    /\ (is_some(req) /\ unwrap(req).protocol = "HBONE") =>
          /\ is_some(unwrap(req).expected_identity)
          /\ Len(pool_calls) = 1
          /\ Len(pool_calls[1].key.dst_id) >= 1
          /\ Len(pool_calls[1].key.dst_id) <= Len(unwrap(req).upstream_sans) + 1
          /\ pool_calls[1].key.dst_id[Len(pool_calls[1].key.dst_id)] =
                unwrap(unwrap(req).expected_identity)
    /\ \A i \in 1..Len(pool_calls) : pool_calls[i].key.dst_id # <<>>

C9_Witness ==
    /\ is_some(req)
    /\ unwrap(req).protocol = "HBONE"
    /\ unwrap(req).upstream_sans = <<>>
    /\ Len(pool_calls) = 1
    /\ Len(pool_calls[1].key.dst_id) = 1

(***************************************************************************)
(* Properties of proxy_to                                                  *)
(***************************************************************************)
BeforeDispatch ==
    {"proxy_to", "fetch_workload", "fetch_destination", "fetch_upstream_waypoint",
     "pick_service_waypoint", "fetch_upstream", "pick_workload_destination",
     "check_from_waypoint", "fetch_waypoint", "pick_workload_waypoint", "build_request_ret"}
OutboundLeg == {"send_request_pooled", "freebind_connect", "copy_bidirectional"}
Ended == {"done", "cancelled"}

\* C10: track_outbound is called at most once, and only after the SelfCall check,
\* a successful resolution and the block_passthrough check; the connection stays tracked
\* (under source, destination and the Request's gateway) while the outbound leg or the
\* relay is in progress, and is released exactly once when the dispatch ends, by the
\* relay's end, by an error of the pool, the dial or the relay, or by the drain.
C10_TrackedOnceForTheLeg ==
    /\ track_calls \in {0, 1}
    /\ release_calls <= track_calls
    /\ is_some(conn_guard) <=> (track_calls = 1 /\ release_calls = 0)
    /\ tracked = (IF is_some(conn_guard) THEN {unwrap(conn_guard)} ELSE {})
    /\ pc \in BeforeDispatch => track_calls = 0
    /\ pc \in OutboundLeg =>
          /\ is_some(req)
          /\ tracked = { [src |-> conn.source_addr, dst |-> conn.dest_addr,
                          gateway |-> unwrap(req).gateway] }
    /\ pc \in Ended => (release_calls = track_calls /\ tracked = {})
    /\ track_calls = 1 =>
          /\ ~self_call(cfg, conn.dest_addr)
          /\ early_deny = <<>>
          /\ Asked("fetch_workload")
          /\ Len(open_records) = 1
          /\ block_passthrough => is_some(open_records[1].destination)

C10_Witness ==
    /\ pc = "cancelled"
    /\ track_calls = 1
    /\ release_calls = 1
    /\ tracked = {}
    /\ block_passthrough

\* C11: the outcome of the outbound leg is recorded exactly once, when the HBONE or the
\* TCP branch has returned, with what the branch returned (Ok, or the error of the pool,
\* the dial or the relay); nothing is recorded before the branch has returned, and
\* nothing is ever recorded twice.
C11_OutcomeRecordedOnce ==
    /\ Len(recorded) <= 1
    /\ pc \in BeforeDispatch \cup OutboundLeg => recorded = <<>>
    /\ recorded # <<>> =>
          /\ pc = "done"
          /\ track_calls = 1
          /\ Len(open_records) = 1
          /\ early_deny = <<>>
          /\ recorded[1] \in pool_answers \cup io_answers
          /\ (~recorded[1].ok /\ recorded[1].val = <<"Pool">>) =>
                (pool_calls # <<>> /\ dials = <<>>)
          /\ open_records[1].connection_security_policy = "unknown" =>
                (dials # <<>> /\ pool_calls = <<>>)
    /\ (pc = "done" /\ open_records # <<>>) => Len(recorded) = 1

C11_Witness ==
    /\ pc = "done"
    /\ Len(recorded) = 1
    /\ ~recorded[1].ok
    /\ recorded[1].val = <<"Pool">>

\* the state of a connection that was denied before dispatch
DeniedBeforeDispatch ==
    /\ Len(early_deny) = 1
    /\ pc = "done"
    /\ track_calls = 0
    /\ tracked = {}
    /\ is_none(conn_guard)
    /\ is_none(result_tracker)
    /\ open_records = <<>>
    /\ pool_calls = <<>>
    /\ dials = <<>>
    /\ recorded = <<>>

\* C12: a connection that proxy_to denies before dispatch (SelfCall, the error of
\* build_request, UnknownDestination) has exactly one early-deny event, carrying that
\* error, and ends there: it is never tracked, has no ConnectionResult or open record,
\* and reaches neither the pool, nor a dial, nor the relay.
C12_DenialEndsConnection ==
    /\ [](early_deny # <<>> => DeniedBeforeDispatch)
    /\ []((pc = "done" /\ track_calls = 0) => DeniedBeforeDispatch)
    /\ [][ /\ (pc = "proxy_to" /\ pc' = "done") => early_deny' = << <<"SelfCall">> >>
           /\ (AtReturn /\ ~returned.ok) =>
                 (pc' = "done" /\ early_deny' = << returned.val >>)
           /\ (AtReturn /\ returned.ok /\ pc' = "done") =>
                 early_deny' = << <<"UnknownDestination", returned_request.destination.ip>> >>
         ]_vars

C12_Witness ==
    /\ DeniedBeforeDispatch
    /\ early_deny[1][1] = "UnknownWaypoint"
    /\ Len(queries) >= 3

\* C13: proxy_to denies a connection as SelfCall exactly when the proxy mode is Shared,
\* the destination IP is the proxy's local_ip and inpod is not enabled, and it does so
\* before any query; otherwise a connection, also one addressed to local_ip, goes on to
\* build_request.
C13_SelfCallExactly ==
    LET own == /\ cfg.proxy_mode = "Shared"
               /\ cfg.local_ip = Some(conn.dest_addr.ip)
               /\ ~cfg.inpod_enabled
        started == pc \notin {"proxy_to", "cancelled"}
    IN  /\ (\E i \in 1..Len(early_deny) : early_deny[i][1] = "SelfCall") => own
        /\ own => pc \in {"proxy_to", "done", "cancelled"}
        /\ (own /\ started) => (early_deny = << <<"SelfCall">> >> /\ queries = <<>>)
        /\ (~own /\ started) => (pc = "fetch_workload" \/ Asked("fetch_workload"))

C13_Witness ==
    /\ cfg.proxy_mode = "Shared"
    /\ cfg.local_ip = Some(conn.dest_addr.ip)
    /\ cfg.inpod_enabled
    /\ pc = "copy_bidirectional"

\* C14: a Request without destination workload is denied as UnknownDestination of its
\* destination IP, untracked and without pool call or dial, when it comes from the
\* SOCKS5 front end (block_passthrough = true), and is tracked and dialled over TCP at
\* its gateway when it comes from the outbound listener (block_passthrough = false);
\* no open record, dial or request of a SOCKS5 connection is without destination workload.
C14_BlockPassthrough ==
    /\ [](conn.front_end = "socks5" =>
            /\ is_some(req) => (/\ is_some(unwrap(req).destination_workload)
                                /\ unwrap(req).request_type # "Passthrough")
            /\ \A i \in 1..Len(open_records) : is_some(open_records[i].destination))
    /\ [][ (AtReturn /\ returned.ok /\ is_none(returned_request.destination_workload)) =>
             IF conn.front_end = "socks5"
             THEN /\ pc' = "done"
                  /\ early_deny' = << <<"UnknownDestination", returned_request.destination.ip>> >>
                  /\ track_calls' = 0 /\ tracked' = {}
                  /\ open_records' = <<>> /\ pool_calls' = <<>> /\ dials' = <<>>
             ELSE /\ pc' = "freebind_connect"
                  /\ returned_request.protocol = "TCP"
                  /\ dials' = << returned_request.gateway >>
                  /\ pool_calls' = <<>>
                  /\ track_calls' = 1
                  /\ early_deny' = <<>>
         ]_vars

C14_Witness ==
    /\ conn.front_end = "socks5"
    /\ pc = "done"
    /\ Len(early_deny) = 1
    /\ early_deny[1] = <<"UnknownDestination", conn.dest_addr.ip>>
    /\ Len(queries) = 3
    /\ track_calls = 0

(***************************************************************************)
(* Properties of the accept loop                                           *)
(***************************************************************************)
\* run's select has taken its drain branch
PrimaryDrainFired == run_pc \in {"draining", "drained"}

\* C15: once the drain branch of run's select has fired, no accept call is pending or
\* issued and no task is spawned; the sub drain is signaled only by that branch, when
\* the accept loop has been dropped, so that no task is spawned once it is signaled.
C15_StopAcceptingThenSignal ==
    /\ [](PrimaryDrainFired => (primary_drain /\ accept_fut = "dropped"))
    /\ [](sub_drain => (listener = "outbound" /\ PrimaryDrainFired /\ accept_fut = "dropped"))
    /\ []((listener = "outbound" /\ PrimaryDrainFired) => sub_drain)
    /\ [][ (PrimaryDrainFired \/ sub_drain) =>
             (Len(tasks') = Len(tasks) /\ accept_log' = accept_log /\ accept_fut' = accept_fut)
         ]_vars
    /\ [][ Len(tasks') > Len(tasks) => (~sub_drain /\ ~sub_drain' /\ run_pc = "select") ]_vars

C15_Witness ==
    /\ listener = "outbound"
    /\ run_pc = "draining"
    /\ sub_drain
    /\ Len(tasks) = 2
    /\ Len(accept_log) < MaxAccepts
    /\ tasks[1].state = "running"

\* C16: when Outbound::run has returned by its drain branch, every task it spawned has
\* ended, by its proxy operation completing or by seeing the sub drain signaled, and
\* holds no Watch any more; while a task is still running its proxy operation run is
\* still awaiting the sub drain.
C16_DrainedAfterEveryTask ==
    (listener = "outbound" /\ PrimaryDrainFired) =>
        /\ run_pc = "drained" =>
              /\ \A i \in 1..Len(tasks) : tasks[i].state \in {"completed", "drained"}
              /\ watches = 0
        /\ (\E i \in 1..Len(tasks) : tasks[i].state = "running") => run_pc = "draining"

C16_Witness ==
    /\ listener = "outbound"
    /\ run_pc = "drained"
    /\ Len(tasks) = 2
    /\ tasks[1].state = "completed"
    /\ tasks[2].state = "drained"

\* C17: once the primary drain is signaled Outbound::run eventually returns, although
\* no proxy operation need ever complete.
C17_ShutdownCompletes ==
    (listener = "outbound" /\ primary_drain) ~> (run_pc \in {"drained", "returned"})

C17_Witness ==
    /\ listener = "outbound"
    /\ run_pc = "drained"
    /\ Len(tasks) = MaxAccepts
    /\ \A i \in 1..Len(tasks) : tasks[i].state = "drained"

\* C18: in both accept loops an accept error that is no runtime shutdown is logged,
\* spawns no task and leaves the loop accepting, however many errors came before it; a
\* runtime-shutdown error is not logged, and the loop and run return at once; a task is
\* spawned for every stream accepted and for nothing else.
C18_AcceptErrors ==
    /\ [](\A i \in 1..Len(accept_log) :
            /\ accept_log[i].socket = "stream" <=> accept_log[i].did = "spawned"
            /\ accept_log[i].socket = "error" <=> accept_log[i].did = "logged"
            /\ accept_log[i].socket = "runtime_shutdown" <=> accept_log[i].did = "returned"
            /\ accept_log[i].did = "returned" => (i = Len(accept_log) /\ run_pc = "returned"))
    /\ [](Len(tasks) = Cardinality({ i \in 1..Len(accept_log) : accept_log[i].socket = "stream" }))
    /\ [](run_pc = "returned" <=>
            (accept_log # <<>> /\ accept_log[Len(accept_log)].socket = "runtime_shutdown"))
    /\ [][ (Len(accept_log') > Len(accept_log)
             /\ accept_log'[Len(accept_log')].socket = "error") =>
               /\ tasks' = tasks
               /\ run_pc' = "select"
               /\ accept_fut' = "pending"
         ]_vars

C18_Witness ==
    /\ listener = "socks5"
    /\ Len(accept_log) = 3
    /\ accept_log[1].socket = "error"
    /\ accept_log[2].socket = "error"
    /\ accept_log[3].socket = "stream"
    /\ Len(tasks) = 1
    /\ run_pc = "select"

(***************************************************************************)
(* Properties of the race of proxy_to against the drain                    *)
(***************************************************************************)
\* the front end gave the task a drain to race its dispatch against
GivenDrainHandle == conn.front_end = "outbound" \/ cfg.inpod_enabled

\* C19: a task given a drain handle completes when the drain is signaled while its
\* dispatch is pending, or when the dispatch finishes, whichever comes first; cancelled,
\* it has recorded no outcome, holds no ConnectionResult and takes no further step.  A
\* task given no handle is never cancelled: a drain signal leaves its dispatch where it
\* is, and it completes only by proxy_to returning.
C19_CancellableDispatch ==
    /\ [](pc = "cancelled" =>
            /\ GivenDrainHandle /\ drain
            /\ recorded = <<>>
            /\ is_none(result_tracker)
            /\ tracked = {})
    /\ []((GivenDrainHandle /\ drain) => pc = "cancelled")
    /\ [](~GivenDrainHandle => pc # "cancelled")
    /\ [][ pc = "cancelled" => (pc' = "cancelled" /\ recorded' = recorded) ]_vars
    /\ [][ (~GivenDrainHandle /\ ~drain /\ drain') =>
             (pc' = pc /\ UNCHANGED dispatch_vars) ]_vars
    /\ [][ (pc \notin Ended /\ pc' = "done") =>
             (early_deny' # <<>> \/ Len(recorded') = 1) ]_vars

C19_Witness ==
    /\ conn.front_end = "socks5"
    /\ ~cfg.inpod_enabled
    /\ drain
    /\ pc = "done"
    /\ Len(recorded) = 1
    /\ recorded[1].ok

(***************************************************************************)
(* Properties of the SOCKS5 handshake                                      *)
(***************************************************************************)
\* the bytes b hold a whole handshake that SOCKS5 CONNECT to an IP address allows: a
\* greeting of version 5 with at least one method, method 0 among them, and a request
\* of version 5, command 1, address type 1 or 4, its address and its port
ConnectHandshake(b) ==
    /\ Len(b) >= 2
    /\ b[1] = 5
    /\ b[2] # 0
    /\ Len(b) >= b[2] + 6
    /\ \E i \in 3..(b[2] + 2) : b[i] = 0
    /\ b[b[2] + 3] = 5
    /\ b[b[2] + 4] = 1
    /\ b[b[2] + 6] \in {1, 4}
    /\ Len(b) >= b[2] + 6 + (IF b[b[2] + 6] = 1 THEN 4 ELSE 16) + 2

\* the socket address such a handshake asks for
RequestedHost(b) ==
    LET at == b[2] + 6
        n == IF b[at] = 1 THEN 4 ELSE 16
    IN  [ip |-> SubSeq(b, at + 1, at + n), port |-> b[at + n + 1] * 256 + b[at + n + 2]]

SuccessReplySent == \E i \in 1..Len(written) : written[i] = success_reply

\* C20: handle spawns the task that calls proxy_to_cancellable only after a whole
\* handshake with greeting version 5, a non-zero method count, method 0 offered, request
\* version 5, command CONNECT and address type IPv4 or IPv6, after both replies, and
\* for the address and port of the request, with block_passthrough = true; on any other
\* bytes, or bytes that end early, it returns an error, has sent no success reply and
\* makes no call.
C20_HandshakeBeforeDispatch ==
    /\ is_some(dispatch_call) <=> hs_pc = "spawned"
    /\ hs_pc = "spawned" =>
          /\ ConnectHandshake(stream_in)
          /\ written = <<method_selection, success_reply>>
          /\ unwrap(dispatch_call).orig_dst_addr = RequestedHost(stream_in)
          /\ unwrap(dispatch_call).remote_addr = conn.source_addr
          /\ unwrap(dispatch_call).block_passthrough = TRUE
          /\ unwrap(dispatch_call).out_drain = cfg.inpod_enabled
    /\ SuccessReplySent => hs_pc = "spawned"
    /\ hs_pc = "error" => (is_none(dispatch_call) /\ ~SuccessReplySent)
    /\ ~ConnectHandshake(stream_in) => hs_pc \notin {"write_reply", "spawned"}
    /\ (Len(stream_in) >= 2 /\ stream_in[1] # 5 /\ hs_pc # "read_version") =>
          (hs_pc = "error" /\ hs.err = "Invalid version" /\ written = <<>>)
    /\ (ConnectHandshake(stream_in) /\ hs_pc = "error") => hs.err = "io"

C20_Witness ==
    /\ hs_pc = "spawned"
    /\ hs.atyp = 4
    /\ Len(hs.methods) = 2
    /\ hs.methods[1] # 0
    /\ unwrap(dispatch_call).orig_dst_addr.port = 8080
    /\ Len(unwrap(dispatch_call).orig_dst_addr.ip) = 16

(***************************************************************************)
(* Properties of the SOCKS5 dispatch tasks                                 *)
(***************************************************************************)
\* task i is a SOCKS5 dispatch that has not ended
DispatchRunning(i) == i <= Len(tasks) /\ listener = "socks5" /\ tasks[i].state = "running"

\* C21: a SOCKS5 task is given the drain exactly when inpod is enabled.  With inpod
\* enabled every dispatch that is running when the drain is signaled ends, although its
\* proxy operation need never complete; without it a dispatch ends only by its proxy
\* operation completing, never by the drain, also when Socks5::run has returned.
C21_DrainHandleIffInpod ==
    /\ [](listener = "socks5" =>
            \A i \in 1..Len(tasks) : tasks[i].watch = "drain" <=> cfg.inpod_enabled)
    /\ \A i \in 1..MaxAccepts :
          (DispatchRunning(i) /\ cfg.inpod_enabled /\ primary_drain)
              ~> (i <= Len(tasks) /\ tasks[i].state \in {"completed", "drained"})
    /\ [][ (listener = "socks5" /\ ~cfg.inpod_enabled) =>
             \A i \in 1..Len(tasks) :
                 (tasks[i].state = "running" /\ tasks'[i].state # "running")
                     => tasks'[i].state = "completed"
         ]_vars

C21_Witness ==
    /\ listener = "socks5"
    /\ ~cfg.inpod_enabled
    /\ primary_drain
    /\ run_pc = "drained"
    /\ Len(tasks) = 2
    /\ tasks[1].state = "running"
    /\ tasks[2].state = "completed"

TaskEnded(t) == t.state \in {"completed", "drained", "failed"}

\* C23: a step that changes a task, whatever its outcome, changes no other task and
\* nothing of the accept loop, and a task that has ended never changes again; the
\* accept loop stops accepting only by a runtime-shutdown error of its own accept or by
\* the drain branch of run's select.
C23_Isolation ==
    /\ [][ \A i \in 1..Len(tasks) :
               tasks'[i] # tasks[i] =>
                   /\ ~TaskEnded(tasks[i])
                   /\ Len(tasks') = Len(tasks)
                   /\ \A j \in 1..Len(tasks) : j # i => tasks'[j] = tasks[j]
                   /\ run_pc' = run_pc
                   /\ accept_fut' = accept_fut
                   /\ accept_log' = accept_log
         ]_vars
    /\ [](accept_fut = "returned" =>
            (accept_log # <<>> /\ accept_log[Len(accept_log)].socket = "runtime_shutdown"))
    /\ [](accept_fut = "dropped" => PrimaryDrainFired)

C23_Witness ==
    /\ listener = "outbound"
    /\ Len(tasks) = 3
    /\ tasks[1].outcome = "early_deny"
    /\ tasks[2].outcome = "relay_error"
    /\ tasks[3].state = "running"
    /\ accept_fut = "pending"
    /\ run_pc = "select"

(***************************************************************************)
(* Properties of the waypoint branches of build_request                    *)
(***************************************************************************)
\* build_request returned because the pick of a replica of the waypoint's workload failed
WaypointPickFailed ==
    /\ AtReturn
    /\ is_some(bl.waypoint_us)
    /\ queries[Len(queries)] = Query("pick_workload_destination", unwrap(bl.waypoint_us).workload)
    /\ ~answers[Len(answers)].ok

\* C24 as claimed: when the pick of a replica of a declared waypoint fails, on the
\* service's or on the workload's waypoint, build_request fails with UnknownWaypoint.
C24_PickFailureIsUnknownWaypoint ==
    WaypointPickFailed => (~returned.ok /\ returned.val[1] = "UnknownWaypoint")

\* C24 as amended: build_request then fails with the error the pick returned, as it is.
C24_PickFailureIsPropagated ==
    WaypointPickFailed => (~returned.ok /\ returned.val = answers[Len(answers)].val)

C24_Witness ==
    /\ WaypointPickFailed
    /\ is_some(bl.us)
    /\ returned.val = NoValidDestination

\* the destination is a service whose waypoint reference is a hostname
HostnameWaypoint ==
    /\ is_some(bl.service)
    /\ is_some(unwrap(bl.service).waypoint)
    /\ unwrap(unwrap(bl.service).waypoint).destination.kind = "Hostname"

\* the directory has no upstream for the address of the service's waypoint
NoWaypointUpstream ==
    /\ is_some(bl.waypoint_vip)
    /\ queries[Len(queries)] = Query("fetch_upstream", unwrap(bl.waypoint_vip))
    /\ is_none(answers[Len(answers)])

\* the lookup of the upstream workload's waypoint returned an error
WaypointLookupFailed ==
    /\ queries # <<>>
    /\ queries[Len(queries)].query = "fetch_waypoint"
    /\ ~answers[Len(answers)].ok

\* C25: with a hostname-form waypoint on the destination service, with no upstream for
\* the service's waypoint address, and with a failed lookup of the workload's waypoint,
\* build_request returns at once with UnknownWaypoint: it returns no Request, Direct or
\* Passthrough or other, and it asks for no replica.
C25_UnresolvableWaypointIsError ==
    /\ (AtReturn /\ HostnameWaypoint) =>
          /\ returned = Err(UnknownWaypoint("hostname lookup not supported yet"))
          /\ Len(queries) = 2
    /\ (AtReturn /\ NoWaypointUpstream) =>
          /\ returned = Err(UnknownWaypoint("unable to determine waypoint upstream"))
          /\ Len(queries) = 3
    /\ (AtReturn /\ WaypointLookupFailed) =>
          /\ ~returned.ok
          /\ returned.val[1] = "UnknownWaypoint"
          /\ Len(queries) = 6

C25_Witness ==
    /\ AtReturn
    /\ WaypointLookupFailed
    /\ unwrap(bl.us).workload.protocol = "TCP"
    /\ ~bl.svc_addressed

\* build_request returned a Request for a target whose upstream workload declares no
\* waypoint
NoDestinationWaypoint ==
    /\ AtReturn
    /\ returned.ok
    /\ is_some(bl.us)
    /\ is_none(unwrap(bl.us).workload.waypoint)

\* C26: whether or not the source workload declares a waypoint, a target whose upstream
\* workload declares none is resolved Direct, with that workload's protocol and the
\* gateway at its replica; the only workload whose waypoint is looked up is the
\* upstream's; and a ToServerWaypoint Request comes of the destination service's
\* waypoint or of a waypoint the upstream workload declares.
C26_SourceWaypointIgnored ==
    /\ NoDestinationWaypoint =>
          /\ returned_request.request_type = "Direct"
          /\ returned_request.protocol = unwrap(bl.us).workload.protocol
          /\ returned_request.destination_workload = Some(unwrap(bl.us).workload)
          /\ returned_request.destination = SocketAddr(unwrap(bl.workload_ip), unwrap(bl.us).port)
          /\ returned_request.gateway =
                IF unwrap(bl.us).workload.protocol = "HBONE"
                THEN SocketAddr(unwrap(bl.workload_ip), hbone_port)
                ELSE returned_request.destination
    /\ is_some(bl.us) =>
          \A i \in 1..Len(queries) :
              queries[i].query = "fetch_waypoint" => queries[i].arg = unwrap(bl.us).workload
    /\ (AtReturn /\ returned.ok /\ returned_request.request_type = "ToServerWaypoint") =>
          \/ /\ is_some(bl.service)
             /\ is_some(unwrap(bl.service).waypoint)
             /\ is_none(bl.us)
          \/ /\ is_some(bl.us)
             /\ is_some(unwrap(bl.us).workload.waypoint)

C26_Witness ==
    /\ NoDestinationWaypoint
    /\ is_some(unwrap(bl.source_workload).waypoint)
    /\ Len(queries) = 6
    /\ queries[6].query = "fetch_waypoint"
    /\ returned_request.request_type = "Direct"
    /\ returned_request.protocol = "TCP"
    /\ returned_request.gateway = returned_request.destination

(***************************************************************************)
(* The order of the directory queries of one resolution                    *)
(***************************************************************************)
ResolutionOrder ==
    <<"fetch_workload", "fetch_destination", "fetch_upstream", "pick_workload_destination",
      "check_from_waypoint", "fetch_waypoint", "pick_workload_destination">>

\* build_request is running or has just returned: its locals are in view
Resolving ==
    pc \in {"fetch_workload", "fetch_destination", "fetch_upstream_waypoint",
            "pick_service_waypoint", "fetch_upstream", "pick_workload_destination",
            "check_from_waypoint", "fetch_waypoint", "pick_workload_waypoint",
            "build_request_ret"}

QueriesInOrder ==
    /\ Len(queries) <= Len(ResolutionOrder)
    /\ \A i \in 1..Len(queries) : queries[i].query = ResolutionOrder[i]
    /\ Len(queries) >= 1 => queries[1].arg = conn.source_addr.ip
    /\ Len(queries) >= 2 => queries[2].arg = conn.dest_addr.ip
    /\ Resolving =>
          /\ Len(answers) = Len(queries)
          /\ (Len(queries) >= 2 \/ (Len(queries) = 1 /\ ~AtReturn)) =>
                /\ is_some(answers[1])
                /\ is_some(cfg.proxy_workload_info) =>
                      matches(unwrap(cfg.proxy_workload_info), unwrap(answers[1]))
          /\ (AtReturn /\ Len(queries) = 1) =>
                returned =
                    IF is_none(answers[1])
                    THEN Err(UnknownSource(conn.source_addr.ip))
                    ELSE Err(MismatchedSource(conn.source_addr.ip,
                                              unwrap(cfg.proxy_workload_info)))
          /\ is_some(bl.waypoint_vip) =>
                /\ Len(queries) <= 4
                /\ Len(queries) >= 3 => queries[3].arg = unwrap(bl.waypoint_vip)
                /\ Len(queries) >= 4 => queries[4].arg = unwrap(bl.waypoint_us).workload
                /\ is_none(bl.us)
          /\ is_none(bl.waypoint_vip) =>
                /\ Len(queries) >= 3 => queries[3].arg = conn.dest_addr
                /\ \A i \in 4..6 : Len(queries) >= i => queries[i].arg = unwrap(bl.us).workload
                /\ Len(queries) = 7 => queries[7].arg = unwrap(bl.waypoint_us).workload
          /\ LET n == IF AtReturn THEN Len(answers) - 1 ELSE Len(answers)
             IN  /\ n >= 3 => is_some(answers[3])
                 /\ n >= 4 => answers[4].ok
                 /\ n >= 5 => (answers[5] = FALSE /\ ~bl.svc_addressed)
                 /\ n >= 6 => (answers[6].ok /\ is_some(answers[6].val))
                 /\ n < 7

\* C27: the queries of a resolution are, in this order, the source workload lookup, the
\* probe of the destination IP, and then either the upstream lookup and the replica
\* pick of the service's waypoint, or the upstream lookup of the target, its replica
\* pick, the from-waypoint check, the lookup of the workload's waypoint and the pick of
\* its replica.  Each is made only when every one before it succeeded and gave no final
\* Request: none after an unknown or mismatched source, no lookup of the target's
\* upstream once the service has a waypoint, and none once build_request has returned.
C27_QueryOrder ==
    /\ []QueriesInOrder
    /\ [][ /\ queries' # queries =>
               /\ Len(queries') = Len(queries) + 1
               /\ SubSeq(queries', 1, Len(queries)) = queries
               /\ pc \in AwaitPoints
               /\ is_none(result)
         ]_vars

C27_Witness ==
    /\ AtReturn
    /\ Len(queries) = 7
    /\ returned.ok
    /\ is_some(cfg.proxy_workload_info)
    /\ unwrap(bl.waypoint_us).workload # unwrap(bl.us).workload

(***************************************************************************)
(* Properties of the tunneled dispatch                                     *)
(***************************************************************************)
\* the connection was dispatched over HBONE and proxy_to has not returned
TunneledDispatch == is_some(req) /\ unwrap(req).protocol = "HBONE"

\* the identities among the SANs of the upstreams in use: the one SAN that is a SPIFFE id
ParsedSans(sans) ==
    IF sans = <<>> THEN <<>>
    ELSE << [trust_domain |-> "cluster.local", namespace |-> "ns",
             service_account |-> "default"] >>

\* C28: a tunneled dispatch asks the pool once and dials nothing.  The key is the source
\* workload's identity, the upstream_sans that parse as identities followed by the
\* expected identity, the source IP of the accepted connection and the Request's
\* gateway; the request is a CONNECT to the Request's destination.  A SAN that does not
\* parse is left out and the dispatch goes on.  When the pool fails the error is
\* recorded and proxy_to returns without a relay.
C28_PoolAskedOnce ==
    /\ [](Len(pool_calls) <= 1)
    /\ [](TunneledDispatch =>
            /\ dials = <<>>
            /\ Len(pool_calls) = 1
            /\ pool_calls[1].key =
                  [src_id |-> identity(unwrap(req).source),
                   dst_id |-> ParsedSans(unwrap(req).upstream_sans)
                              \o << unwrap(unwrap(req).expected_identity) >>,
                   src |-> conn.source_addr.ip,
                   dst |-> unwrap(req).gateway]
            /\ pool_calls[1].request.method = "CONNECT"
            /\ pool_calls[1].request.uri = unwrap(req).destination)
    /\ [](pool_calls # <<>> => (TunneledDispatch \/ pc \in {"done", "cancelled"}))
    /\ [][ pool_calls' # pool_calls => (pc = "build_request_ret" /\ pc' = "send_request_pooled")
         ]_vars
    /\ [][ (pc = "send_request_pooled" /\ pc' # pc) =>
             \/ pc' = "copy_bidirectional" /\ recorded' = recorded
             \/ pc' = "done" /\ recorded' = << Err(<<"Pool">>) >>
             \/ pc' = "cancelled" /\ recorded' = recorded
         ]_vars

C28_Witness ==
    /\ TunneledDispatch
    /\ pc = "copy_bidirectional"
    /\ unwrap(req).upstream_sans = <<BadSan, GoodSan>>
    /\ Len(pool_calls[1].key.dst_id) = 2
    /\ unwrap(req).gateway # unwrap(req).destination
    /\ unwrap(req).request_type = "Direct"

(***************************************************************************)
(* The shape of the Requests build_request returns                         *)
(***************************************************************************)
WellFormed(r) ==
    /\ r.request_type \in {"Passthrough", "Direct", "ToServerWaypoint"}
    /\ r.protocol \in Protocols
    /\ r.request_type = "Passthrough" <=> is_none(r.destination_workload)
    /\ r.request_type = "Passthrough" <=> is_none(r.expected_identity)
    /\ r.request_type = "Passthrough" => (r.protocol = "TCP" /\ r.gateway = r.destination)
    /\ r.request_type = "ToServerWaypoint" => r.protocol = "HBONE"
    /\ r.protocol = "HBONE" => is_some(r.expected_identity)

\* C29: every Request build_request returns is Passthrough exactly when it has no
\* destination workload and exactly when it has no expected identity, and is then TCP
\* with the gateway at the destination; a ToServerWaypoint Request is HBONE; an HBONE
\* Request has an expected identity, so that build_hbone_request always finds one.
C29_WellFormedRequest ==
    /\ (AtReturn /\ returned.ok) => WellFormed(returned_request)
    /\ is_some(req) => WellFormed(unwrap(req))
    /\ \A i \in 1..Len(pool_calls) : pool_calls[i].key.dst_id # <<>>

C29_Witness ==
    /\ AtReturn
    /\ returned.ok
    /\ returned_request.request_type = "ToServerWaypoint"
    /\ is_some(bl.us)
    /\ unwrap(bl.us).workload.protocol = "TCP"
    /\ returned_request.protocol = "HBONE"

(***************************************************************************)
(* The self call and the source lookup                                     *)
(***************************************************************************)
\* a shared proxy without inpod, and a connection addressed to the proxy's own IP
OwnAddressCalled ==
    /\ cfg.proxy_mode = "Shared"
    /\ ~cfg.inpod_enabled
    /\ cfg.local_ip = Some(conn.dest_addr.ip)

\* C30: a connection to the own IP of a shared proxy without inpod is denied as SelfCall
\* by the first step of proxy_to, before the source workload or anything else is asked
\* of the directory: whatever the directory holds for its source, the one denial logged
\* for it is SelfCall, never UnknownSource or MismatchedSource.
C30_SelfCallBeforeSourceLookup ==
    OwnAddressCalled =>
        /\ queries = <<>>
        /\ answers = <<>>
        /\ is_none(result)
        /\ bl = NoLocals
        /\ pc \in {"proxy_to", "done", "cancelled"}
        /\ pc = "done" => early_deny = << SelfCall >>
        /\ pc # "done" => early_deny = <<>>
        /\ open_records = <<>>

C30_Witness ==
    /\ OwnAddressCalled
    /\ pc = "done"
    /\ early_deny = << SelfCall >>
    /\ is_some(cfg.proxy_workload_info)
    /\ conn.front_end = "socks5"

(***************************************************************************)
(* A SOCKS5 connection from its handshake to the end of its dispatch       *)
(***************************************************************************)
\* the connection Socks5::run accepted: the client's bytes, and the destination they
\* ask for where they are a whole handshake
Socks5Init ==
    /\ cfg \in Configs
    /\ stream_in \in ClientStreams
    /\ handle_start
    /\ listener = "socks5"
    /\ conn = [front_end |-> "socks5",
               source_addr |-> SocketAddr(IpAddr(1), 40000),
               dest_addr |-> IF ConnectHandshake(stream_in)
                             THEN RequestedHost(stream_in)
                             ELSE SocketAddr(IpAddr(1), 80)]
    /\ run_start
    /\ proxy_to_start

\* dispatch_task, spawned before the success reply is written
dispatch_task_before_reply ==
    /\ hs_pc \in {"write_reply", "spawned"}
    /\ Next

\* the task handle spawned runs proxy_to_cancellable
dispatch_task ==
    /\ hs_pc = "spawned"
    /\ Next

Socks5Next ==
    \/ handle
    \/ dispatch_task

Socks5Spec == Socks5Init /\ [][Socks5Next]_vars

\* proxy_to has been polled
DispatchStarted == pc # "proxy_to" \/ drain

\* C31: handle writes the success reply before it spawns the dispatch, so before the
\* self-call check, the resolution and the dial: a SOCKS5 connection that is denied
\* before dispatch, with any of the five errors, or whose dial or pool request fails,
\* has been sent the method selection and the success reply, and nothing else is ever
\* written to the client, in particular no reply with a failure code.
C31_SuccessReplyBeforeResolution ==
    /\ \A i \in 1..Len(written) : written[i] \in {method_selection, success_reply}
    /\ \A i \in 1..Len(written) : written[i][2] = 0
    /\ (DispatchStarted \/ queries # <<>> \/ early_deny # <<>> \/ recorded # <<>>
          \/ dials # <<>> \/ pool_calls # <<>>) =>
          /\ hs_pc = "spawned"
          /\ written = <<method_selection, success_reply>>
          /\ unwrap(dispatch_call).orig_dst_addr = conn.dest_addr
          /\ unwrap(dispatch_call).block_passthrough = block_passthrough
          /\ unwrap(dispatch_call).out_drain = out_drain

C31_Witness ==
    /\ pc = "done"
    /\ early_deny # <<>>
    /\ early_deny[1][1] = "UnknownDestination"
    /\ written = <<method_selection, success_reply>>
    /\ Len(stream_in) > 12

\* task i of Socks5::run is a connection that has not terminated
Socks5Open(i) == listener = "socks5" /\ tasks[i].state \in {"handshake", "running"}

\* a SOCKS5 task holds its clone of the listener's drain exactly while it is open; no
\* SOCKS5 task of a shared proxy is ever ended by the drain; and the owner of the drain
\* has not been released while a handshake is going on or a shared-mode dispatch runs
HandleHeldWhileOpen ==
    \A i \in 1..Len(tasks) :
        listener = "socks5" =>
            /\ (tasks[i].holds = "drain") <=> Socks5Open(i)
            /\ tasks[i].state = "drained" => cfg.inpod_enabled
            /\ (Socks5Open(i) /\ (tasks[i].state = "handshake" \/ ~cfg.inpod_enabled)) =>
                  signal_pc # "drained"

\* a step ends a SOCKS5 task by the drain only from its dispatch, in inpod mode and
\* with the drain signaled; a handshake ends only by itself
DrainEndsOnlyInpodDispatch ==
    \A i \in 1..Len(tasks) :
        listener = "socks5" =>
            /\ (tasks[i].state # "drained" /\ tasks'[i].state = "drained") =>
                  (tasks[i].state = "running" /\ cfg.inpod_enabled /\ primary_drain)
            /\ tasks[i].state = "handshake" =>
                  tasks'[i].state \in {"handshake", "running", "failed"}

\* C32: every task Socks5::run spawns holds a clone of the listener's drain from the
\* accept until its handshake fails or its dispatch ends; in shared mode the dispatch is
\* never ended by the drain and keeps the clone until it completes; the handshake is
\* raced against the drain in no mode; so the drain().await of the owner of the drain,
\* which returns when every Watch is dropped, does not return while a shared-mode
\* SOCKS5 connection is open or a handshake is going on.
C32_DrainHandleHeldByConnection ==
    /\ []HandleHeldWhileOpen
    /\ [][DrainEndsOnlyInpodDispatch]_vars

C32_Witness ==
    /\ listener = "socks5"
    /\ ~cfg.inpod_enabled
    /\ run_pc = "drained"
    /\ signal_pc = "draining"
    /\ \E i \in 1..Len(tasks) : tasks[i].state = "running" /\ tasks[i].holds = "drain"
    /\ \E i \in 1..Len(tasks) : tasks[i].state = "handshake" /\ tasks[i].holds = "drain"
    /\ \E i \in 1..Len(tasks) : tasks[i].state = "completed" /\ tasks[i].holds = "none"

====
